---- MODULE Spec2Model ----
(***************************************************************************)
(* ClimaMetrics: the thermal comfort indicator engine (src/indicators.py)  *)
(* and its Power BI exporter (src/powerbi_exporter.py).                    *)
(*                                                                         *)
(* Numbers.  A float is an exact rational <<n, d>> in lowest terms with    *)
(* d > 0; NaN (pandas' null) is <<0, 0>>.  Rounding of IEEE doubles is not *)
(* modelled.                                                               *)
(*                                                                         *)
(* Time.  A timestamp is <<year, day, second>>: the day of the year and    *)
(* the second of that day.  NaT is <<0, 0, 0>>.  A date "MM/DD" is its day *)
(* of the year.                                                            *)
(*                                                                         *)
(* Tables.  The table _load_energyplus_data returns holds, for every zone, *)
(* one record per row of the EnergyPlus CSV; it is kept as the sequence of *)
(* CSV rows, each with its label, the outdoor reading and the readings of  *)
(* every zone.  A WIDE grid is [idx, cols, val]: the timestamps of its     *)
(* index, the names of its columns and the cell of every pair.             *)
(***************************************************************************)
EXTENDS Integers, Sequences, FiniteSets, TLC

VARIABLES
  df,         \* the table _load_energyplus_data returned
  args,       \* the command and its arguments
  calc,       \* the ThermalIndicators object: its thresholds and its year
  pc,         \* the position of the running export
  iod_wide,   \* the IOD grid of the export (after the date filter in powerbi)
  awd_wide,   \* the AWD grid of the export
  alpha_wide, \* the ALPHA grid of the export
  ddh_wide,   \* the hourly DDH grid of the export
  di_wide,    \* the DI grid of the export
  all_dfs,    \* powerbi: the ULTRA-LONG rows collected so far
  df_final,   \* powerbi: the rows written to the output file
  files,      \* wide: the grid written to each indicator's file
  error,      \* the exception that ended the export and the block that raised it
  call,       \* a call of one method on its own: the arguments
  result,     \* ... and what it returned, or has computed so far
  config      \* the process-wide settings object (src/config.py)

vars == <<df, args, calc, pc, iod_wide, awd_wide, alpha_wide, ddh_wide, di_wide,
          all_dfs, df_final, files, error, call, result, config>>

----------------------------------------------------------------------------
(* floats *)

NaN == <<0, 0>>
IsNaN(a) == a[2] = 0
NotNa(a) == a[2] # 0

Abs(n) == IF n < 0 THEN -n ELSE n

RECURSIVE Gcd(_, _)
Gcd(a, b) == IF b = 0 THEN a ELSE Gcd(b, a % b)

\* the rational n/d in lowest terms (d # 0)
R(n, d) ==
  LET g == Gcd(Abs(n), Abs(d))
      s == IF d < 0 THEN -1 ELSE 1
  IN  <<(s * n) \div g, (s * d) \div g>>

\* a whole number of degrees, and a number of tenths
Deg(n) == <<n, 1>>
Tenths(n) == R(n, 10)
Zero == <<0, 1>>

\* float arithmetic: NaN propagates
Add(a, b) == IF IsNaN(a) \/ IsNaN(b) THEN NaN ELSE R(a[1] * b[2] + b[1] * a[2], a[2] * b[2])
Sub(a, b) == IF IsNaN(a) \/ IsNaN(b) THEN NaN ELSE R(a[1] * b[2] - b[1] * a[2], a[2] * b[2])
Mul(a, b) == IF IsNaN(a) \/ IsNaN(b) THEN NaN ELSE R(a[1] * b[1], a[2] * b[2])
\* a / b for b # 0 (every caller guards the zero denominator)
Div(a, b) == IF IsNaN(a) \/ IsNaN(b) \/ b[1] = 0 THEN NaN ELSE R(a[1] * b[2], a[2] * b[1])
\* comparisons: a comparison with NaN is False
Lt(a, b) == NotNa(a) /\ NotNa(b) /\ a[1] * b[2] < b[1] * a[2]
Le(a, b) == NotNa(a) /\ NotNa(b) /\ a[1] * b[2] <= b[1] * a[2]
Gt(a, b) == Lt(b, a)
Ge(a, b) == Le(b, a)

\* np.maximum(a, 0) and Series.clip(lower=0): NaN stays NaN
Maximum0(a) == IF IsNaN(a) THEN NaN ELSE IF a[1] < 0 THEN Zero ELSE a
\* Series.clip(upper=u): NaN stays NaN
ClipUpper(a, u) == IF IsNaN(a) THEN NaN ELSE IF Gt(a, u) THEN u ELSE a

\* a sequence given by a rule, as the sequence of its values
Values(s) == SubSeq(s, 1, Len(s))

\* the non-null values of a sequence of floats
NonNull(s) == SelectSeq(s, NotNa)

\* the sum of the values of s from place lo to place hi
RECURSIVE SumRange(_, _, _)
SumRange(s, lo, hi) ==
  IF lo > hi THEN Zero
  ELSE IF lo = hi THEN s[lo]
  ELSE LET mid == (lo + hi) \div 2
       IN  Add(SumRange(s, lo, mid), SumRange(s, mid + 1, hi))
SeqSum(s) == SumRange(s, 1, Len(s))

\* pandas' sum, mean and first of a group or a column: nulls are skipped
SumSkipNa(s) == SeqSum(NonNull(s))
MeanSkipNa(s) ==
  LET v == NonNull(s)
  IN  IF v = <<>> THEN NaN ELSE Div(SeqSum(v), Deg(Len(v)))
FirstSkipNa(s) ==
  LET v == NonNull(s)
  IN  IF v = <<>> THEN NaN ELSE Head(v)

----------------------------------------------------------------------------
(* timestamps *)

NaT == <<0, 0, 0>>
\* a < b and a <= b on timestamps
TsLt(a, b) ==
  \/ a[1] < b[1]
  \/ a[1] = b[1] /\ a[2] < b[2]
  \/ a[1] = b[1] /\ a[2] = b[2] /\ a[3] < b[3]
TsLe(a, b) == a = b \/ TsLt(a, b)

\* the elements of a finite set of timestamps in ascending order
RECURSIVE SortedTs(_)
SortedTs(S) ==
  IF S = {} THEN <<>>
  ELSE LET m == CHOOSE a \in S : \A b \in S : TsLe(a, b)
       IN  <<m>> \o SortedTs(S \ {m})

\* year: Optional[int] = None; `if year:` takes 0 for None as well
NoYear == 0
\* the year pandas gives a timestamp parsed with a format that has no year
StrptimeYear == 1900

\* _parse_datetime of one label <<day, second>>: the label's day and time with
\* self.year attached (Timestamp.replace(year=None) keeps the parsed year)
ParseDatetime(label, year) ==
  <<IF year = NoYear THEN StrptimeYear ELSE year, label[1], label[2]>>

----------------------------------------------------------------------------
(* the table and the WIDE grids *)

\* the zones of the table, in the order _load_energyplus_data appended them
ZoneSeq == <<"Z1", "Z2">>
Zones == {ZoneSeq[k] : k \in 1..Len(ZoneSeq)}

\* the concatenation of a sequence of sequences
RECURSIVE Flatten(_)
Flatten(ss) == IF ss = <<>> THEN <<>> ELSE Head(ss) \o Flatten(Tail(ss))

\* the DateTime column of CSV row r
DateTime(r, year) == ParseDatetime(r.label, year)

\* the distinct, non-null timestamps of the table (groupby drops a NaT key)
Timestamps(d, year) == {DateTime(d[i], year) : i \in 1..Len(d)} \ {NaT}

\* the long table the calculations work on: one record per zone and CSV row,
\* zone after zone and each zone in file order, with vals[i][z] as the column
\* computed for row i and zone z
Frame(d, year, vals) ==
  Values(Flatten([k \in 1..Len(ZoneSeq) |->
    [i \in 1..Len(d) |->
       [DateTime |-> DateTime(d[i], year), Zone |-> ZoneSeq[k],
        Value |-> vals[i][ZoneSeq[k]]]]]))

\* the values of the records of timestamp t and of a zone in zs, in frame order
GroupValues(frame, t, zs) ==
  LET rs == SelectSeq(frame, LAMBDA r : r.DateTime = t /\ r.Zone \in zs)
  IN  [i \in 1..Len(rs) |-> rs[i].Value]

\* the aggregation functions the pivots name
Aggregate(aggfunc, s) ==
  CASE aggfunc = "mean" -> MeanSkipNa(s)
    [] aggfunc = "sum" -> SumSkipNa(s)
    [] aggfunc = "first" -> FirstSkipNa(s)

EmptyGrid == [idx |-> {}, cols |-> {}, val |-> <<>>]

\* DataFrame.pivot_table(index='DateTime', columns='Zone', values='Value',
\* aggfunc=aggfunc): every (timestamp, zone) group is aggregated, the groups whose
\* aggregate is null are dropped (dropna=True), and the rest is unstacked: the
\* index holds the timestamps and the columns the zones that kept a group, and
\* a cell without a group is null
PivotTable(frame, aggfunc) ==
  LET ts == {frame[i].DateTime : i \in 1..Len(frame)} \ {NaT}
      agged == [p \in ts \X Zones |->
                  Aggregate(aggfunc, GroupValues(frame, p[1], {p[2]}))]
      kept == {p \in DOMAIN agged : NotNa(agged[p])}
      idx == {p[1] : p \in kept}
      cols == {p[2] : p \in kept}
  IN  [idx |-> idx, cols |-> cols,
       val |-> [p \in idx \X cols |-> IF p \in kept THEN agged[p] ELSE NaN]]

\* DataFrame.fillna(v)
FillNa(g, v) == [g EXCEPT !.val = [p \in DOMAIN g.val |-> IF IsNaN(g.val[p]) THEN v ELSE g.val[p]]]

\* the cell of timestamp t and column z, null when the grid has no such cell
\* (what DataFrame.reindex gives)
Cell(g, t, z) == IF <<t, z>> \in DOMAIN g.val THEN g.val[<<t, z>>] ELSE NaN

\* the cells of column z in index order
Column(g, z) ==
  LET ix == SortedTs(g.idx)
  IN  [i \in 1..Len(ix) |-> g.val[<<ix[i], z>>]]

----------------------------------------------------------------------------
(* the indicators (ThermalIndicators) *)

\* IOD without the occupancy mask, to compare with
IODValue_Unmasked(op, occ, comfort) == Maximum0(Sub(op, comfort))

\* np.where(Occupancy > 0, np.maximum(Operative_Temperature - COMFORT_TEMPERATURE, 0), nan)
IODValue(op, occ, comfort) ==
  IF Gt(occ, Zero) THEN Maximum0(Sub(op, comfort)) ELSE NaN

\* calculate_indoor_overheating_degree: the IOD column, pivoted with the mean
CalculateIOD(d, c) ==
  LET IOD == [i \in 1..Len(d) |-> [z \in Zones |->
                IODValue(d[i].zd[z].op, d[i].zd[z].occ, c.COMFORT_TEMPERATURE)]]
  IN  PivotTable(Frame(d, c.year, IOD), "mean")

\* np.maximum(Outdoor_Dry_Bulb_Temperature - BASE_OUTSIDE_TEMPERATURE, 0)
AWDValue(out, base) == Maximum0(Sub(out, base))

\* an AWD grid with rows only where some zone has an IOD, to compare with
CalculateAWD_Occupied(d, c) ==
  LET ts == {t \in Timestamps(d, c.year) :
               \E i \in 1..Len(d), z \in Zones :
                 DateTime(d[i], c.year) = t /\ Gt(d[i].zd[z].occ, Zero)}
  IN  [idx |-> ts, cols |-> {"Environment"},
       val |-> [p \in ts \X {"Environment"} |->
                  AWDValue((CHOOSE r \in {d[i] : i \in 1..Len(d)} : DateTime(r, c.year) = p[1]).out,
                           c.BASE_OUTSIDE_TEMPERATURE)]]

\* calculate_ambient_warmness_degree: groupby('DateTime')['AWD'].first() keeps
\* one row per timestamp, the first non-null AWD of its records (null if none),
\* in the single column "Environment"
CalculateAWD(d, c) ==
  LET AWD == [i \in 1..Len(d) |-> [z \in Zones |->
                AWDValue(d[i].out, c.BASE_OUTSIDE_TEMPERATURE)]]
      frame == Frame(d, c.year, AWD)
      ts == {frame[i].DateTime : i \in 1..Len(frame)} \ {NaT}
  IN  [idx |-> ts, cols |-> {"Environment"},
       val |-> [p \in ts \X {"Environment"} |->
                  FirstSkipNa(GroupValues(frame, p[1], Zones))]]

\* a quotient that gives 0 where AWD is 0 or null, to compare with
AlphaValue_ZeroFilled(iod, awd) ==
  IF NotNa(awd) /\ awd # Zero THEN Div(iod, awd) ELSE Zero

\* one cell of calculate_alpha:
\* np.where((awd != 0) & awd.notna(), iod / awd, nan)
AlphaValue(iod, awd) ==
  IF NotNa(awd) /\ awd # Zero THEN Div(iod, awd) ELSE NaN

\* calculate_alpha: AWD is reindexed to the IOD index, and every IOD column is
\* divided by it
CalculateAlpha(iod, awd) ==
  [idx |-> iod.idx, cols |-> iod.cols,
   val |-> [p \in iod.idx \X iod.cols |->
              AlphaValue(iod.val[p], Cell(awd, p[1], "Environment"))]]

\* x.rolling(window=7*24, ...)
RollingWindow == 7 * 24

\* the CSV rows sorted by DateTime (sort_values(['Zone', 'DateTime']) within one
\* zone): ascending, rows of one timestamp in file order, NaT rows last
SortRows(d, year) ==
  LET Key(i) == DateTime(d[i], year)
      Before(a, b) == IF a = NaT THEN FALSE ELSE IF b = NaT THEN TRUE ELSE TsLt(a, b)
      \* the place of row i: after the rows of earlier timestamps and the
      \* earlier rows of its own timestamp
      place == Values([i \in 1..Len(d) |->
                  1 + Cardinality({j \in 1..Len(d) :
                                     \/ Before(Key(j), Key(i))
                                     \/ ~Before(Key(i), Key(j)) /\ j < i})])
  IN  [k \in 1..Len(d) |-> d[CHOOSE i \in 1..Len(d) : place[i] = k]]

\* a mean over all the values up to position k, to compare with
RollingMean_Expanding(x, k, w) == MeanSkipNa(SubSeq(x, 1, k))

\* x.rolling(window=w, min_periods=1).mean() at position k of series x: the mean
\* of the non-null values among the last w values ending at k, null if none
RollingMean(x, k, w) ==
  LET lo == IF k - w + 1 < 1 THEN 1 ELSE k - w + 1
  IN  MeanSkipNa(SubSeq(x, lo, k))

\* Top_up of a row from its running mean theta_rm:
\*   T_op = 0.33 * theta_rm + 18.8;  Top_up = T_op + 4
\*   Top_up = np.where(theta_rm < 10, 18.0, Top_up);  Top_up.clip(upper=32.7)
TopUp(theta_rm) ==
  LET T_op == Add(Mul(R(33, 100), theta_rm), Tenths(188))
      up == Add(T_op, Deg(4))
      cold == IF Lt(theta_rm, Deg(10)) THEN Deg(18) ELSE up
  IN  ClipUpper(cold, Tenths(327))

\* a DDH column without the lower clip, to compare with
DDHValue_Signed(op, occ, theta_rm) ==
  Mul(Sub(op, TopUp(theta_rm)), IF Gt(occ, Zero) THEN Deg(1) ELSE Zero)

\* the DDH column of a row:
\*   (Operative_Temperature - Top_up).clip(lower=0) * (Occupancy > 0).astype(int)
DDHValue(op, occ, theta_rm) ==
  Mul(Maximum0(Sub(op, TopUp(theta_rm))), IF Gt(occ, Zero) THEN Deg(1) ELSE Zero)

\* calculate_degree_weighted_discomfort_hours: the rows are sorted by DateTime,
\* theta_rm is the rolling mean of the outdoor temperature over the sorted rows
\* of the zone, and the DDH column is pivoted with the sum and fillna(0)
CalculateDDH(d, c) ==
  LET sorted == Values(SortRows(d, c.year))
      x == Values([k \in 1..Len(sorted) |-> sorted[k].out])
      theta_rm == Values([k \in 1..Len(sorted) |-> RollingMean(x, k, RollingWindow)])
      DDH == [k \in 1..Len(sorted) |-> [z \in Zones |->
                DDHValue(sorted[k].zd[z].op, sorted[k].zd[z].occ, theta_rm[k])]]
  IN  FillNa(PivotTable(Frame(sorted, c.year, DDH), "sum"), Zero)

\* calculate_wet_bulb_temperature (Stull 2011), tabulated to 0.001 degrees at the
\* readings the model draws from
StullTw(Ta, RH) ==
  CASE Ta = Deg(8)  /\ RH = Deg(30) -> R(1752, 1000)
    [] Ta = Deg(8)  /\ RH = Deg(80) -> R(6008, 1000)
    [] Ta = Deg(24) /\ RH = Deg(30) -> R(13837, 1000)
    [] Ta = Deg(24) /\ RH = Deg(80) -> R(21369, 1000)
    [] Ta = Deg(40) /\ RH = Deg(30) -> R(25919, 1000)
    [] Ta = Deg(40) /\ RH = Deg(80) -> R(36730, 1000)
    [] Ta = Deg(24) /\ RH = Deg(40) -> R(15571, 1000)
    [] Ta = Deg(24) /\ RH = Deg(100) -> R(24039, 1000)
    [] Ta = Deg(24) /\ RH = Deg(120) -> R(26692, 1000)
    [] Ta = Deg(40) /\ RH = Deg(40) -> R(28579, 1000)
    [] Ta = Deg(40) /\ RH = Deg(100) -> R(40152, 1000)
    [] Ta = Deg(40) /\ RH = Deg(120) -> R(43406, 1000)

\* the DI column of a row: Tw where the outdoor temperature and the zone's
\* Relative_Humidity are not null, and DI = 0.5 * (Outdoor_Dry_Bulb_Temperature + Tw)
DIValue(out, rh) ==
  LET Tw == IF NotNa(out) /\ NotNa(rh) THEN StullTw(out, rh) ELSE NaN
  IN  Mul(R(1, 2), Add(out, Tw))

\* calculate_discomfort_index: the DI column pivoted with first, and fillna(0)
CalculateDI(d, c) ==
  LET DI == [i \in 1..Len(d) |-> [z \in Zones |-> DIValue(d[i].out, d[i].zd[z].rh)]]
  IN  FillNa(PivotTable(Frame(d, c.year, DI), "first"), Zero)

----------------------------------------------------------------------------
(* the Power BI exporter (PowerBIExporter) *)

\* start_date / end_date: Optional[str] = None
NoDate == 0
\* the DateTime '' of an aggregated row
NoDateTime == <<>>

\* the year _filter_by_date_range combines a "MM/DD" bound with: the year given,
\* or the year of the first row of the grid it is filtering
FilterYear(g, year) ==
  IF year # NoYear THEN year ELSE SortedTs(g.idx)[1][1]

\* the grid restricted to the rows of timestamps in keep
Rows(g, keep) ==
  [idx |-> keep, cols |-> g.cols, val |-> [p \in keep \X g.cols |-> g.val[p]]]

\* the grid after the start_date step of _filter_by_date_range
FilterFrom(g, start_date, year) ==
  IF start_date = NoDate THEN g
  ELSE Rows(g, {t \in g.idx : TsLe(<<FilterYear(g, year), start_date, 0>>, t)})

\* an end_date step that stops at 00:00:00 of the end day, to compare with
FilterTo_Midnight(g, end_date, year) ==
  IF end_date = NoDate THEN g
  ELSE Rows(g, {t \in g.idx : TsLe(t, <<FilterYear(g, year), end_date, 0>>)})

\* the grid after the end_date step: end is extended to 23:59:59
FilterTo(g, end_date, year) ==
  IF end_date = NoDate THEN g
  ELSE Rows(g, {t \in g.idx : TsLe(t, <<FilterYear(g, year), end_date, 23 * 3600 + 59 * 60 + 59>>)})

\* _filter_by_date_range raises IndexError: a bound is given, no year is, and
\* the grid that bound is applied to has no first row
FilterRaises(g, start_date, end_date, year) ==
  /\ year = NoYear
  /\ \/ start_date # NoDate /\ g.idx = {}
     \/ end_date # NoDate /\ FilterFrom(g, start_date, year).idx = {}

\* _filter_by_date_range, where it does not raise
FilterByDateRange(g, start_date, end_date, year) ==
  FilterTo(FilterFrom(g, start_date, year), end_date, year)

\* the order sort_values and pivot_table give the Zone and Indicator strings
ZoneOrder == <<"Environment", "Z1", "Z2", "values">>
IndicatorOrder == <<"AWD", "DDH", "DI", "IOD", "alpha", "alphatot">>
Rank(order, x) == CHOOSE k \in 1..Len(order) : order[k] = x
SortedCols(cols) == SelectSeq(ZoneOrder, LAMBDA z : z \in cols)

\* _wide_to_long: pd.melt gives one row per column and index entry, column
\* after column, null cells included
WideToLong(g, indicator_name, include_datetime) ==
  LET ix == SortedTs(g.idx)
      cs == SortedCols(g.cols)
  IN  Flatten([k \in 1..Len(cs) |->
        [i \in 1..Len(ix) |->
           [Indicator |-> indicator_name,
            DateTime |-> IF include_datetime THEN ix[i] ELSE NoDateTime,
            Zone |-> cs[k],
            Value |-> g.val[<<ix[i], cs[k]>>]]]])

\* df_alpha.mean().mean(): the mean of each column, then the mean of those
AlphatotValue(alpha) ==
  LET cs == SortedCols(alpha.cols)
  IN  MeanSkipNa([k \in 1..Len(cs) |-> MeanSkipNa(Column(alpha, cs[k]))])

\* alphatot as one row per zone, the mean of the zone's column, to compare with
CalculateAlphatot_PerZone(alpha) ==
  LET cs == SortedCols(alpha.cols)
  IN  [k \in 1..Len(cs) |->
        [Indicator |-> "alphatot", DateTime |-> NoDateTime, Zone |-> cs[k],
         Value |-> MeanSkipNa(Column(alpha, cs[k]))]]

\* _calculate_alphatot: a single row
CalculateAlphatot(alpha) ==
  <<[Indicator |-> "alphatot", DateTime |-> NoDateTime, Zone |-> "values",
     Value |-> AlphatotValue(alpha)]>>

\* DDH handed on as one row per timestamp and zone, to compare with
AggregateDDH_Hourly(g) == WideToLong(g, "DDH", TRUE)

\* _aggregate_ddh: df_ddh.sum(axis=0), one row per column
AggregateDDH(g) ==
  LET cs == SortedCols(g.cols)
  IN  [k \in 1..Len(cs) |->
        [Indicator |-> "DDH", DateTime |-> NoDateTime, Zone |-> cs[k],
         Value |-> SumSkipNa(Column(g, cs[k]))]]

\* the order of sort_values(['Indicator', 'Zone', 'DateTime'])
RowBefore(a, b) ==
  LET ia == Rank(IndicatorOrder, a.Indicator)
      ib == Rank(IndicatorOrder, b.Indicator)
      za == Rank(ZoneOrder, a.Zone)
      zb == Rank(ZoneOrder, b.Zone)
  IN  \/ ia < ib
      \/ ia = ib /\ za < zb
      \/ ia = ib /\ za = zb /\ a.DateTime # NoDateTime /\ b.DateTime # NoDateTime
           /\ TsLt(a.DateTime, b.DateTime)

----------------------------------------------------------------------------
(* the settings object and the loader: _find_zone_columns and
   _load_energyplus_data.  A column of the CSV is named <<prefix, variable>>,
   for "prefix:variable"; a template is the variable, and formatting it with
   a zone puts the zone in front.  A cell of the CSV is a number, a text that
   is no number, or empty. *)

\* the settings the file settings.yaml gives under `indicators`: every zone
\* variable with its template, its fallback templates and whether it is
\* required, the environmental variables, and the switches of the calculation
Settings(calculate, required) ==
  [zone_variables |->
     [air_temperature |->
        [column_pattern |-> "Zone Mean Air Temperature", fallback |-> <<>>, required |-> TRUE],
      relative_humidity |->
        [column_pattern |-> "Zone Air Relative Humidity", fallback |-> <<>>, required |-> FALSE],
      mean_radiant_temperature |->
        [column_pattern |-> "Zone Mean Radiant Temperature", fallback |-> <<>>, required |-> FALSE],
      operative_temperature |->
        [column_pattern |-> "Zone Operative Temperature",
         fallback |-> <<"Zone Thermal Comfort Operative Temperature",
                        "Zone Thermostat Operative Temperature">>,
         required |-> TRUE],
      occupancy |->
        [column_pattern |-> "Zone People Total Heating Rate", fallback |-> <<>>,
         required |-> FALSE, conversion_factor |-> R(1, 100)]],
   environmental_variables |->
     [outdoor_temperature |->
        [column_pattern |-> <<"Environment", "Site Outdoor Air Drybulb Temperature">>,
         required |-> required]],
   calculations |->
     [calculate_operative_if_missing |-> calculate,
      defaults |-> [relative_humidity |-> Deg(50), occupancy |-> Zero]]]

\* str.format(zone=zone_name) on a template
Format(pattern, zone_name) == <<zone_name, pattern>>

NoColumn == <<>>

\* the last of the fallback templates whose column exists, to compare with
RECURSIVE LastFallback(_, _, _)
LastFallback(columns, fallback, zone_name) ==
  IF fallback = <<>> THEN NoColumn
  ELSE IF Format(fallback[Len(fallback)], zone_name) \in columns
       THEN Format(fallback[Len(fallback)], zone_name)
       ELSE LastFallback(columns, SubSeq(fallback, 1, Len(fallback) - 1), zone_name)

\* the first of the fallback templates whose column exists
RECURSIVE FirstFallback(_, _, _)
FirstFallback(columns, fallback, zone_name) ==
  IF fallback = <<>> THEN NoColumn
  ELSE IF Format(Head(fallback), zone_name) \in columns
       THEN Format(Head(fallback), zone_name)
       ELSE FirstFallback(columns, Tail(fallback), zone_name)

\* the column a variable of a zone is read from
FindColumn(columns, var_config, zone_name) ==
  IF Format(var_config.column_pattern, zone_name) \in columns
  THEN Format(var_config.column_pattern, zone_name)
  ELSE FirstFallback(columns, var_config.fallback, zone_name)

\* zone_cols: the variables of a zone that were found, each with its column
ZoneCols(columns, zone_var_config, zone_name) ==
  LET found == {v \in DOMAIN zone_var_config :
                  FindColumn(columns, zone_var_config[v], zone_name) # NoColumn}
  IN  [v \in found |-> FindColumn(columns, zone_var_config[v], zone_name)]

\* the map of the zones with every required variable found, to compare with
FindZoneColumns_Complete(columns, zones, settings) ==
  LET zone_var_config == settings.zone_variables
      kept == {k \in 1..Len(zones) :
                 \A v \in DOMAIN zone_var_config :
                   zone_var_config[v].required
                     => v \in DOMAIN ZoneCols(columns, zone_var_config, zones[k])}
  IN  [z \in {zones[k] : k \in kept} |-> ZoneCols(columns, zone_var_config, z)]

\* _find_zone_columns: the zones with at least one variable found
FindZoneColumns(columns, zones, settings) ==
  LET zone_var_config == settings.zone_variables
      kept == {k \in 1..Len(zones) :
                 DOMAIN ZoneCols(columns, zone_var_config, zones[k]) # {}}
  IN  [z \in {zones[k] : k \in kept} |-> ZoneCols(columns, zone_var_config, z)]

\* the environmental variables whose column exists
EnvColumns(columns, settings) ==
  LET env_var_config == settings.environmental_variables
      found == {v \in DOMAIN env_var_config : env_var_config[v].column_pattern \in columns}
  IN  [v \in found |-> env_var_config[v].column_pattern]

\* no environmental variable is fatal, to compare with
EnvRaises_Never(columns, settings) == FALSE

\* a required environmental variable has no column
EnvRaises(columns, settings) ==
  LET env_var_config == settings.environmental_variables
  IN  \E v \in DOMAIN env_var_config :
        /\ env_var_config[v].column_pattern \notin columns
        /\ env_var_config[v].required

\* pd.to_numeric(errors='coerce') of a cell
ToNumeric(cell) == IF cell.kind = "number" THEN cell.value ELSE NaN

\* a column of the CSV as numbers
Numeric(csv, column) == Values([i \in 1..csv.rows |-> ToNumeric(csv.cell[<<column, i>>])])

\* a column holding one value on every row
Constant(csv, value) == Values([i \in 1..csv.rows |-> value])

Air_Temperature(csv, cols) ==
  IF "air_temperature" \in DOMAIN cols
  THEN Numeric(csv, cols.air_temperature)
  ELSE Constant(csv, NaN)

Relative_Humidity(csv, cols, settings) ==
  IF "relative_humidity" \in DOMAIN cols
  THEN Numeric(csv, cols.relative_humidity)
  ELSE Constant(csv, settings.calculations.defaults.relative_humidity)

Mean_Radiant_Temperature(csv, cols) ==
  IF "mean_radiant_temperature" \in DOMAIN cols
  THEN Numeric(csv, cols.mean_radiant_temperature)
  ELSE Constant(csv, NaN)

\* the operative temperature of every row, chosen row by row, to compare with
Operative_Temperature_ByRow(csv, cols, settings) ==
  LET air == Air_Temperature(csv, cols)
      mrt == Mean_Radiant_Temperature(csv, cols)
      op  == IF "operative_temperature" \in DOMAIN cols
             THEN Numeric(csv, cols.operative_temperature)
             ELSE Constant(csv, NaN)
  IN  [i \in 1..csv.rows |->
         IF NotNa(op[i]) THEN op[i]
         ELSE IF NotNa(air[i]) /\ NotNa(mrt[i]) THEN Div(Add(air[i], mrt[i]), Deg(2))
         ELSE air[i]]

\* the operative temperature of every row of a zone
Operative_Temperature(csv, cols, settings) ==
  LET air == Air_Temperature(csv, cols)
      mrt == Mean_Radiant_Temperature(csv, cols)
  IN  IF "operative_temperature" \in DOMAIN cols
      THEN Numeric(csv, cols.operative_temperature)
      ELSE IF settings.calculations.calculate_operative_if_missing
      THEN IF /\ "mean_radiant_temperature" \in DOMAIN cols
              /\ \E i \in 1..csv.rows : NotNa(mrt[i])
           THEN [i \in 1..csv.rows |-> Div(Add(air[i], mrt[i]), Deg(2))]
           ELSE air
      ELSE air

\* Series.clip(lower=0): NaN stays NaN
ClipLower0(a) == IF IsNaN(a) THEN NaN ELSE IF a[1] < 0 THEN Zero ELSE a

Occupancy(csv, cols, settings) ==
  IF "occupancy" \in DOMAIN cols
  THEN LET conversion_factor == settings.zone_variables.occupancy.conversion_factor
           watts == Numeric(csv, cols.occupancy)
       IN  [i \in 1..csv.rows |-> ClipLower0(Mul(watts[i], conversion_factor))]
  ELSE Constant(csv, settings.calculations.defaults.occupancy)

Outdoor_Dry_Bulb_Temperature(csv, env_columns) ==
  IF "outdoor_temperature" \in DOMAIN env_columns
  THEN Numeric(csv, env_columns.outdoor_temperature)
  ELSE Constant(csv, NaN)

DateTimeColumn == <<"", "Date/Time">>

\* zone_df: the rows of one zone
ZoneDf(csv, zone_name, cols, env_columns, settings) ==
  LET air == Air_Temperature(csv, cols)
      rh  == Relative_Humidity(csv, cols, settings)
      mrt == Mean_Radiant_Temperature(csv, cols)
      op  == Operative_Temperature(csv, cols, settings)
      occ == Occupancy(csv, cols, settings)
      out == Outdoor_Dry_Bulb_Temperature(csv, env_columns)
  IN  [i \in 1..csv.rows |->
         [DateTime |-> csv.cell[<<DateTimeColumn, i>>], Zone |-> zone_name, row |-> i,
          Air_Temperature |-> air[i], Relative_Humidity |-> rh[i],
          Mean_Radiant_Temperature |-> mrt[i], Operative_Temperature |-> op[i],
          Occupancy |-> occ[i], Outdoor_Dry_Bulb_Temperature |-> out[i]]]

\* combined_df: the rows of the zones of the map, in the order of the zones asked
CombinedDf(csv, zones, zone_columns, env_columns, settings) ==
  LET kept == SelectSeq(zones, LAMBDA z : z \in DOMAIN zone_columns)
  IN  Flatten([k \in 1..Len(kept) |->
                 ZoneDf(csv, kept[k], zone_columns[kept[k]], env_columns, settings)])

\* _load_energyplus_data: the exception it raises, "" when it returns
LoadRaises(csv, zones, settings) ==
  IF DOMAIN FindZoneColumns(csv.columns, zones, settings) = {} THEN "ValueError"
  ELSE IF EnvRaises(csv.columns, settings) THEN "ValueError"
  ELSE IF DateTimeColumn \notin csv.columns THEN "KeyError"
  ELSE ""

\* _load_energyplus_data: the table it returns
LoadEnergyplusData(csv, zones, settings) ==
  CombinedDf(csv, zones, FindZoneColumns(csv.columns, zones, settings),
             EnvColumns(csv.columns, settings), settings)

----------------------------------------------------------------------------
(* the inputs *)

\* the longest table, in CSV rows; row i is labelled noon of day i
MaxRows == 2

\* the readings the tables are drawn from: the first zone's humidity reads 80 %
ReadingsZ1 == [op : {NaN, Deg(20), Deg(35)}, rh : {Deg(80)}, occ : {Zero, Deg(1)}]
ReadingsZ2 == {[op |-> Deg(35), rh |-> Deg(30), occ |-> Deg(1)],
               [op |-> Deg(20), rh |-> Deg(80), occ |-> Zero]}
\* the same with fewer cases, for the tables that meet every date range
FewReadingsZ1 == {zr \in ReadingsZ1 : zr.op = Deg(35)}
FewReadingsZ2 == {zr \in ReadingsZ2 : zr.occ = Deg(1)}

Row(i, o, a, b) ==
  [label |-> <<i, 12 * 3600>>, out |-> o, zd |-> [z \in Zones |-> IF z = "Z1" THEN a ELSE b]]

\* the tables of n rows whose row j is drawn from all the readings and whose
\* other rows are drawn from the few (j = 0: every row from the few)
RECURSIVE Tables(_, _)
Tables(n, j) ==
  IF n = 0 THEN {<<>>}
  ELSE LET rows == IF n = j
                   THEN {Row(n, o, a, b) : o \in {NaN, Deg(8), Deg(40)}, a \in ReadingsZ1, b \in ReadingsZ2}
                   ELSE {Row(n, o, a, b) : o \in {Deg(8), Deg(40)}, a \in FewReadingsZ1, b \in FewReadingsZ2}
       IN  {Append(t, r) : t \in Tables(n - 1, j), r \in rows}

AllIndicators == {"IOD", "AWD", "ALPHA", "DDH", "DI"}

\* the calls of export_powerbi with the date range of the days in dates
PowerBIArgs(dates, years, inds) ==
  [cmd : {"powerbi"}, indicators : inds, year : years,
   start_date : dates, end_date : dates,
   comfort_temp : {Tenths(265), Deg(25)}, base_temp : {Deg(18)}]

\* the runs of the `indicators` command
WideArgs(inds) ==
  [cmd : {"wide"}, indicators : inds, year : {2020},
   start_date : {NoDate}, end_date : {NoDate},
   comfort_temp : {Tenths(265), Deg(25)}, base_temp : {Deg(18)}]

\* ThermalIndicators.__init__
NewCalc(year) ==
  [COMFORT_TEMPERATURE |-> Tenths(265), BASE_OUTSIDE_TEMPERATURE |-> Deg(18), year |-> year]

NoError == [type |-> "", at |-> ""]

Init ==
  /\ \E n \in 1..MaxRows :
       \/ /\ \E j \in 1..n : df \in Tables(n, j)
          /\ args \in PowerBIArgs({NoDate}, {2020}, {AllIndicators})
       \/ /\ df \in Tables(n, 0)
          /\ args \in PowerBIArgs(0..(n + 1), {NoYear, 2020}, {AllIndicators})
                        \cup WideArgs({AllIndicators})
  /\ calc = NewCalc(2020)
  /\ pc = "start"
  /\ iod_wide = EmptyGrid
  /\ awd_wide = EmptyGrid
  /\ alpha_wide = EmptyGrid
  /\ ddh_wide = EmptyGrid
  /\ di_wide = EmptyGrid
  /\ all_dfs = <<>>
  /\ df_final = <<>>
  /\ files = <<>>
  /\ error = NoError
  /\ call = <<>>
  /\ result = <<>>
  /\ config = Settings(TRUE, FALSE)

----------------------------------------------------------------------------
(* export_powerbi, one action per indicator's block *)

Selected(name) == name \in args.indicators

\* the block ends in the exception _filter_by_date_range raised
Abort(exception) ==
  /\ pc' = "aborted"
  /\ error' = [type |-> exception, at |-> pc]
  /\ UNCHANGED <<df, args, calc, iod_wide, awd_wide, alpha_wide, ddh_wide, di_wide,
                 all_dfs, df_final, files, call, result, config>>

\* a grid handed on without the date range applied, to compare with
Unfiltered(g) == g

Filtered(g) == FilterByDateRange(g, args.start_date, args.end_date, args.year)
Raises(g) == FilterRaises(g, args.start_date, args.end_date, args.year)

\* the temperatures and the year are stored on the calculator (the temperatures
\* under names no calculation reads), and the table is loaded
PowerBI_Begin ==
  /\ pc = "start" /\ args.cmd = "powerbi"
  /\ calc' = [COMFORT_TEMPERATURE |-> calc.COMFORT_TEMPERATURE,
              BASE_OUTSIDE_TEMPERATURE |-> calc.BASE_OUTSIDE_TEMPERATURE,
              year |-> args.year]
  /\ pc' = "IOD"
  /\ UNCHANGED <<df, args, iod_wide, awd_wide, alpha_wide, ddh_wide, di_wide,
                 all_dfs, df_final, files, error, call, result, config>>

PowerBI_IOD ==
  /\ pc = "IOD"
  /\ LET g == CalculateIOD(df, calc)
     IN  IF ~(Selected("IOD") \/ Selected("ALPHA"))
         THEN /\ pc' = "AWD"
              /\ UNCHANGED <<df, args, calc, iod_wide, awd_wide, alpha_wide, ddh_wide,
                             di_wide, all_dfs, df_final, files, error, call, result, config>>
         ELSE IF Raises(g) THEN Abort("IndexError")
         ELSE /\ iod_wide' = Filtered(g)
              /\ all_dfs' = IF Selected("IOD")
                            THEN all_dfs \o WideToLong(Filtered(g), "IOD", TRUE)
                            ELSE all_dfs
              /\ pc' = "AWD"
              /\ UNCHANGED <<df, args, calc, awd_wide, alpha_wide, ddh_wide, di_wide,
                             df_final, files, error, call, result, config>>

PowerBI_AWD ==
  /\ pc = "AWD"
  /\ LET g == CalculateAWD(df, calc)
     IN  IF ~(Selected("AWD") \/ Selected("ALPHA"))
         THEN /\ pc' = "ALPHA"
              /\ UNCHANGED <<df, args, calc, iod_wide, awd_wide, alpha_wide, ddh_wide,
                             di_wide, all_dfs, df_final, files, error, call, result, config>>
         ELSE IF Raises(g) THEN Abort("IndexError")
         ELSE /\ awd_wide' = Filtered(g)
              /\ all_dfs' = IF Selected("AWD")
                            THEN all_dfs \o WideToLong(Filtered(g), "AWD", TRUE)
                            ELSE all_dfs
              /\ pc' = "ALPHA"
              /\ UNCHANGED <<df, args, calc, iod_wide, alpha_wide, ddh_wide, di_wide,
                             df_final, files, error, call, result, config>>

\* ALPHA is derived from the filtered IOD and AWD grids, and alphatot from it
PowerBI_ALPHA ==
  /\ pc = "ALPHA"
  /\ LET a == CalculateAlpha(iod_wide, awd_wide)
     IN  IF ~Selected("ALPHA")
         THEN /\ pc' = "DDH"
              /\ UNCHANGED <<df, args, calc, iod_wide, awd_wide, alpha_wide, ddh_wide,
                             di_wide, all_dfs, df_final, files, error, call, result, config>>
         ELSE /\ alpha_wide' = a
              /\ all_dfs' = all_dfs \o WideToLong(a, "alpha", TRUE) \o CalculateAlphatot(a)
              /\ pc' = "DDH"
              /\ UNCHANGED <<df, args, calc, iod_wide, awd_wide, ddh_wide, di_wide,
                             df_final, files, error, call, result, config>>

\* the hourly DDH grid is filtered, and the filtered grid is aggregated
PowerBI_DDH ==
  /\ pc = "DDH"
  /\ LET g == CalculateDDH(df, calc)
     IN  IF ~Selected("DDH")
         THEN /\ pc' = "DI"
              /\ UNCHANGED <<df, args, calc, iod_wide, awd_wide, alpha_wide, ddh_wide,
                             di_wide, all_dfs, df_final, files, error, call, result, config>>
         ELSE IF Raises(g) THEN Abort("IndexError")
         ELSE /\ ddh_wide' = Filtered(g)
              /\ all_dfs' = all_dfs \o AggregateDDH(Filtered(g))
              /\ pc' = "DI"
              /\ UNCHANGED <<df, args, calc, iod_wide, awd_wide, alpha_wide, di_wide,
                             df_final, files, error, call, result, config>>

PowerBI_DI ==
  /\ pc = "DI"
  /\ LET g == CalculateDI(df, calc)
     IN  IF ~Selected("DI")
         THEN /\ pc' = "write"
              /\ UNCHANGED <<df, args, calc, iod_wide, awd_wide, alpha_wide, ddh_wide,
                             di_wide, all_dfs, df_final, files, error, call, result, config>>
         ELSE IF Raises(g) THEN Abort("IndexError")
         ELSE /\ di_wide' = Filtered(g)
              /\ all_dfs' = all_dfs \o WideToLong(Filtered(g), "DI", TRUE)
              /\ pc' = "write"
              /\ UNCHANGED <<df, args, calc, iod_wide, awd_wide, alpha_wide, ddh_wide,
                             df_final, files, error, call, result, config>>

\* pd.concat (which raises on an empty list), sort_values and to_csv
PowerBI_Write ==
  /\ pc = "write"
  /\ IF all_dfs = <<>> THEN Abort("ValueError")
     ELSE /\ df_final' = SortSeq(all_dfs, RowBefore)
          /\ pc' = "done"
          /\ UNCHANGED <<df, args, calc, iod_wide, awd_wide, alpha_wide, ddh_wide,
                         di_wide, all_dfs, files, error, call, result, config>>

----------------------------------------------------------------------------
(* the `indicators` command: export_indicators_wide, one action per file *)

\* the file of indicator name holds grid g
Exported(name, g) == [n \in DOMAIN files \cup {name} |-> IF n = name THEN g ELSE files[n]]

\* cli.indicators: the calculator is built with the year, and a temperature
\* that differs from the default replaces the calculator's constant
Wide_Begin ==
  /\ pc = "start" /\ args.cmd = "wide"
  /\ calc' = [COMFORT_TEMPERATURE |-> args.comfort_temp,
              BASE_OUTSIDE_TEMPERATURE |-> args.base_temp,
              year |-> args.year]
  /\ pc' = "wIOD"
  /\ UNCHANGED <<df, args, iod_wide, awd_wide, alpha_wide, ddh_wide, di_wide,
                 all_dfs, df_final, files, error, call, result, config>>

Wide_IOD ==
  /\ pc = "wIOD"
  /\ pc' = "wAWD"
  /\ iod_wide' = IF Selected("IOD") THEN CalculateIOD(df, calc) ELSE iod_wide
  /\ files' = IF Selected("IOD") THEN Exported("IOD", CalculateIOD(df, calc)) ELSE files
  /\ UNCHANGED <<df, args, calc, awd_wide, alpha_wide, ddh_wide, di_wide, all_dfs, df_final, error, call, result, config>>

Wide_AWD ==
  /\ pc = "wAWD"
  /\ pc' = "wALPHA"
  /\ awd_wide' = IF Selected("AWD") THEN CalculateAWD(df, calc) ELSE awd_wide
  /\ files' = IF Selected("AWD") THEN Exported("AWD", CalculateAWD(df, calc)) ELSE files
  /\ UNCHANGED <<df, args, calc, iod_wide, alpha_wide, ddh_wide, di_wide, all_dfs, df_final, error, call, result, config>>

\* ALPHA computes the IOD and AWD grids it was not handed
Wide_ALPHA ==
  /\ pc = "wALPHA"
  /\ pc' = "wDDH"
  /\ LET iod == IF Selected("IOD") THEN iod_wide ELSE CalculateIOD(df, calc)
         awd == IF Selected("AWD") THEN awd_wide ELSE CalculateAWD(df, calc)
     IN  IF Selected("ALPHA")
         THEN /\ iod_wide' = iod
              /\ awd_wide' = awd
              /\ alpha_wide' = CalculateAlpha(iod, awd)
              /\ files' = Exported("ALPHA", CalculateAlpha(iod, awd))
         ELSE UNCHANGED <<iod_wide, awd_wide, alpha_wide, files>>
  /\ UNCHANGED <<df, args, calc, ddh_wide, di_wide, all_dfs, df_final, error, call, result, config>>

\* the hourly DDH grid is the file
Wide_DDH ==
  /\ pc = "wDDH"
  /\ pc' = "wDI"
  /\ ddh_wide' = IF Selected("DDH") THEN CalculateDDH(df, calc) ELSE ddh_wide
  /\ files' = IF Selected("DDH") THEN Exported("DDH", CalculateDDH(df, calc)) ELSE files
  /\ UNCHANGED <<df, args, calc, iod_wide, awd_wide, alpha_wide, di_wide, all_dfs, df_final, error, call, result, config>>

Wide_DI ==
  /\ pc = "wDI"
  /\ pc' = "done"
  /\ di_wide' = IF Selected("DI") THEN CalculateDI(df, calc) ELSE di_wide
  /\ files' = IF Selected("DI") THEN Exported("DI", CalculateDI(df, calc)) ELSE files
  /\ UNCHANGED <<df, args, calc, iod_wide, awd_wide, alpha_wide, ddh_wide, all_dfs, df_final, error, call, result, config>>

Next ==
  \/ PowerBI_Begin \/ PowerBI_IOD \/ PowerBI_AWD \/ PowerBI_ALPHA
  \/ PowerBI_DDH \/ PowerBI_DI \/ PowerBI_Write
  \/ Wide_Begin \/ Wide_IOD \/ Wide_AWD \/ Wide_ALPHA \/ Wide_DDH \/ Wide_DI

Spec == Init /\ [][Next]_vars

----------------------------------------------------------------------------
(* the exports of DDH over tables longer than the rolling window *)

\* the tables of n hourly-spaced rows whose first row reads the outdoor
\* temperature o, whose other rows read 24 degrees, and whose zones are occupied
\* at 35 degrees, the first zone of the last row as a
LongTable(n, o, a) ==
  [i \in 1..n |->
     Row(i, IF i = 1 THEN o ELSE Deg(24),
         IF i = n THEN a ELSE [op |-> Deg(35), rh |-> Deg(80), occ |-> Deg(1)],
         [op |-> Deg(35), rh |-> Deg(30), occ |-> Deg(1)])]

LongTables ==
  {LongTable(n, o, a) : n \in {RollingWindow, RollingWindow + 1},
                        o \in {Deg(8), Deg(40)}, a \in FewReadingsZ1}

InitSeries ==
  /\ \/ /\ df \in LongTables
        /\ args \in WideArgs({{"DDH"}})
     \/ /\ \E n \in 1..MaxRows : \E j \in 1..n : df \in Tables(n, j)
        /\ args \in PowerBIArgs({NoDate}, {2020}, {{"DDH"}}) \cup WideArgs({{"DDH"}})
  /\ calc = NewCalc(2020)
  /\ pc = "start"
  /\ iod_wide = EmptyGrid
  /\ awd_wide = EmptyGrid
  /\ alpha_wide = EmptyGrid
  /\ ddh_wide = EmptyGrid
  /\ di_wide = EmptyGrid
  /\ all_dfs = <<>>
  /\ df_final = <<>>
  /\ files = <<>>
  /\ error = NoError
  /\ call = <<>>
  /\ result = <<>>
  /\ config = Settings(TRUE, FALSE)

SpecSeries == InitSeries /\ [][Next]_vars

----------------------------------------------------------------------------
(* _filter_by_date_range on its own, on grids with rows at the first and the
   last second of a day *)

\* the days the grids and the date ranges reach
MaxDay == 3

LastSecond == 23 * 3600 + 59 * 60 + 59

\* a grid of one column over the timestamps T, every row with its own value
GridOver(T) ==
  [idx |-> T, cols |-> {"Z1"},
   val |-> [p \in T \X {"Z1"} |-> R(p[1][2] * 86400 + p[1][3], 3600)]]

\* the hourly grid of the year 2020
HourlyGrid == GridOver({<<2020, d, h * 3600>> : d \in 1..MaxDay, h \in 0..23})

\* the grids of one year with rows at 00:00:00 and 23:59:59
BoundaryGrids ==
  {GridOver(T) : T \in UNION {SUBSET {<<y, d, s>> : d \in 1..MaxDay, s \in {0, LastSecond}} :
                               y \in {2020, 2021}}}

InitFilter ==
  /\ call \in [df_wide : BoundaryGrids \cup {HourlyGrid},
                start_date : 0..MaxDay, end_date : 0..MaxDay, year : {NoYear, 2020}]
  /\ result = <<>>
  /\ pc = "call"
  /\ error = NoError
  /\ df = <<>>
  /\ args = <<>>
  /\ calc = NewCalc(2020)
  /\ iod_wide = EmptyGrid
  /\ awd_wide = EmptyGrid
  /\ alpha_wide = EmptyGrid
  /\ ddh_wide = EmptyGrid
  /\ di_wide = EmptyGrid
  /\ all_dfs = <<>>
  /\ df_final = <<>>
  /\ files = <<>>
  /\ config = Settings(TRUE, FALSE)

\* the call returns the filtered grid, or raises
FilterCall ==
  /\ pc = "call"
  /\ IF FilterRaises(call.df_wide, call.start_date, call.end_date, call.year)
     THEN /\ pc' = "raised"
          /\ error' = [type |-> "IndexError", at |-> "call"]
          /\ UNCHANGED result
     ELSE /\ pc' = "returned"
          /\ result' = FilterByDateRange(call.df_wide, call.start_date, call.end_date, call.year)
          /\ UNCHANGED error
  /\ UNCHANGED <<df, args, calc, iod_wide, awd_wide, alpha_wide, ddh_wide, di_wide,
                 all_dfs, df_final, files, call, config>>

NextFilter == FilterCall

SpecFilter == InitFilter /\ [][NextFilter]_vars

----------------------------------------------------------------------------
(* _load_energyplus_data on its own, on CSV files of MaxRows rows that hold
   some of the columns the settings name *)

\* a cell holding the number x, a cell holding a text, an empty cell
Number(x) == [kind |-> "number", value |-> x]
Text == [kind |-> "text", value |-> NaN]
Empty == [kind |-> "empty", value |-> NaN]

\* the columns a file may or may not hold, and the ones every file holds
SomeColumns ==
  {<<"Z1", v>> : v \in {"Zone Operative Temperature",
                        "Zone Thermal Comfort Operative Temperature",
                        "Zone Thermostat Operative Temperature",
                        "Zone Mean Air Temperature",
                        "Zone Mean Radiant Temperature",
                        "Zone People Total Heating Rate"}}
    \cup {<<"Z2", "Zone Mean Air Temperature">>,
          <<"Environment", "Site Outdoor Air Drybulb Temperature">>}
FixedColumns == {<<"Z3", "Zone Mean Air Temperature">>}

\* what is wrong with a file
Shapes == {"clean", "radiant_gap", "radiant_empty", "operative_text", "no_datetime"}

\* the reading of a column on row i
Reading(column, i) ==
  CASE column[2] = "Zone Operative Temperature" -> Deg(30 + i)
    [] column[2] = "Zone Thermal Comfort Operative Temperature" -> Deg(40 + i)
    [] column[2] = "Zone Thermostat Operative Temperature" -> Deg(50 + i)
    [] column[2] = "Zone Mean Air Temperature" -> Deg(20 + i)
    [] column[2] = "Zone Mean Radiant Temperature" -> Deg(25 + i)
    [] column[2] = "Zone People Total Heating Rate" -> Deg(150 * i - 200)
    [] OTHER -> Deg(10 + i)

CellOf(column, i, shape) ==
  IF column = DateTimeColumn THEN <<i, 12 * 3600>>
  ELSE IF shape = "radiant_gap" /\ column = <<"Z1", "Zone Mean Radiant Temperature">> /\ i = 1
  THEN Empty
  ELSE IF shape = "radiant_empty" /\ column = <<"Z1", "Zone Mean Radiant Temperature">>
  THEN Empty
  ELSE IF shape = "operative_text" /\ column = <<"Z1", "Zone Operative Temperature">> /\ i = 1
  THEN Text
  ELSE Number(Reading(column, i))

CsvFile(some, shape) ==
  LET columns == some \cup FixedColumns
                   \cup (IF shape = "no_datetime" THEN {} ELSE {DateTimeColumn})
  IN  [columns |-> columns, rows |-> MaxRows,
       cell |-> [p \in columns \X (1..MaxRows) |-> CellOf(p[1], p[2], shape)]]

CsvFiles == {CsvFile(some, shape) : some \in SUBSET SomeColumns, shape \in Shapes}

AllSettings == {Settings(calculate, required) : calculate \in BOOLEAN, required \in BOOLEAN}

InitLoad ==
  /\ call \in [csv : CsvFiles, zones : {ZoneSeq}]
  /\ config \in AllSettings
  /\ result = <<>>
  /\ pc = "load"
  /\ error = NoError
  /\ df = <<>>
  /\ args = <<>>
  /\ calc = NewCalc(2020)
  /\ iod_wide = EmptyGrid
  /\ awd_wide = EmptyGrid
  /\ alpha_wide = EmptyGrid
  /\ ddh_wide = EmptyGrid
  /\ di_wide = EmptyGrid
  /\ all_dfs = <<>>
  /\ df_final = <<>>
  /\ files = <<>>

\* the zones are looked up; no zone found raises
Load_FindZones ==
  /\ pc = "load"
  /\ LET zone_columns == FindZoneColumns(call.csv.columns, call.zones, config)
     IN  /\ result' = [zone_columns |-> zone_columns]
         /\ IF DOMAIN zone_columns = {}
            THEN /\ pc' = "raised"
                 /\ error' = [type |-> "ValueError", at |-> pc]
            ELSE /\ pc' = "environment"
                 /\ UNCHANGED error
  /\ UNCHANGED <<df, args, calc, iod_wide, awd_wide, alpha_wide, ddh_wide, di_wide,
                 all_dfs, df_final, files, call, config>>

\* the environmental columns are looked up; a required one missing raises
Load_FindEnvironment ==
  /\ pc = "environment"
  /\ IF EnvRaises(call.csv.columns, config)
     THEN /\ pc' = "raised"
          /\ error' = [type |-> "ValueError", at |-> pc]
          /\ UNCHANGED result
     ELSE /\ pc' = "prepare"
          /\ result' = [zone_columns |-> result.zone_columns,
                        env_columns |-> EnvColumns(call.csv.columns, config)]
          /\ UNCHANGED error
  /\ UNCHANGED <<df, args, calc, iod_wide, awd_wide, alpha_wide, ddh_wide, di_wide,
                 all_dfs, df_final, files, call, config>>

\* the rows prepared under fixed settings, whatever the settings object holds,
\* to compare with
Load_Prepare_FixedSettings ==
  /\ pc = "prepare"
  /\ DateTimeColumn \in call.csv.columns
  /\ pc' = "loaded"
  /\ result' = [zone_columns |-> result.zone_columns,
                env_columns |-> result.env_columns,
                combined_df |-> CombinedDf(call.csv, call.zones, result.zone_columns,
                                           result.env_columns, Settings(TRUE, FALSE))]
  /\ UNCHANGED <<df, args, calc, iod_wide, awd_wide, alpha_wide, ddh_wide, di_wide,
                 all_dfs, df_final, files, error, call, config>>

\* the rows of every zone are prepared and combined
Load_Prepare ==
  /\ pc = "prepare"
  /\ IF DateTimeColumn \notin call.csv.columns
     THEN /\ pc' = "raised"
          /\ error' = [type |-> "KeyError", at |-> pc]
          /\ UNCHANGED result
     ELSE /\ pc' = "loaded"
          /\ result' = [zone_columns |-> result.zone_columns,
                        env_columns |-> result.env_columns,
                        combined_df |-> CombinedDf(call.csv, call.zones, result.zone_columns,
                                                   result.env_columns, config)]
          /\ UNCHANGED error
  /\ UNCHANGED <<df, args, calc, iod_wide, awd_wide, alpha_wide, ddh_wide, di_wide,
                 all_dfs, df_final, files, call, config>>

NextLoad == Load_FindZones \/ Load_FindEnvironment \/ Load_Prepare

SpecLoad == InitLoad /\ [][NextLoad]_vars

----------------------------------------------------------------------------
(* _parse_datetime on its own.  A label "MM/DD HH:MM:SS" is its month, its
   day, the number of blanks between date and time (EnergyPlus writes two)
   and its time of day; a missing label is the float NaN pandas reads from
   an empty cell.  Here a timestamp is <<year, month, day, second>>.  The
   labels are those the formats '%m/%d %H:%M:%S' accept once fixed; the later
   attempts of _parse_datetime (format='mixed', errors='coerce') are never
   reached by them. *)

MissingLabel == [month |-> 0, day |-> 0, gap |-> 0, time |-> ""]

IsLeap(year) == (year % 4 = 0 /\ year % 100 # 0) \/ year % 400 = 0

DaysInMonth(month, year) ==
  IF month = 2 THEN (IF IsLeap(year) THEN 29 ELSE 28)
  ELSE IF month \in {4, 6, 9, 11} THEN 30 ELSE 31

ValidDate(month, day, year) == month \in 1..12 /\ day \in 1..DaysInMonth(month, year)

\* date + timedelta(days=1)
NextDay(year, month, day) ==
  IF day < DaysInMonth(month, year) THEN <<year, month, day + 1>>
  ELSE IF month < 12 THEN <<year, month + 1, 1>>
  ELSE <<year + 1, 1, 1>>

\* the second of the day of a time of day the format %H:%M:%S accepts
SecondOfDay(time) ==
  CASE time = "00:00:00" -> 0
    [] time = "01:00:00" -> 3600
    [] time = "12:00:00" -> 12 * 3600

\* fix_24_hour: strptime reads the date part in the year 1900 and rejects a
\* date part that ends in a blank; the label then only has its time replaced
Fix24Hour(time_str) ==
  IF time_str.time = "24:00:00"
  THEN IF time_str.gap = 1 /\ ValidDate(time_str.month, time_str.day, StrptimeYear)
       THEN LET dt == NextDay(StrptimeYear, time_str.month, time_str.day)
            IN  [month |-> dt[2], day |-> dt[3], gap |-> 1, time |-> "00:00:00"]
       ELSE [time_str EXCEPT !.time = "00:00:00"]
  ELSE time_str

\* pd.to_datetime(format='%m/%d  %H:%M:%S') of a fixed label, then
\* x.replace(year=self.year)
ToDatetime(fixed, year) ==
  <<IF year = NoYear THEN StrptimeYear ELSE year, fixed.month, fixed.day,
    SecondOfDay(fixed.time)>>

\* _parse_datetime raises: `' 24:00:00' in time_str` on a float
ParseDatetimeRaises(datetime_series) ==
  \E i \in 1..Len(datetime_series) : datetime_series[i] = MissingLabel

\* _parse_datetime: the parsed series
ParseDatetimeSeries(datetime_series, year) ==
  [i \in 1..Len(datetime_series) |-> ToDatetime(Fix24Hour(datetime_series[i]), year)]

\* the labels of the dates at the start and the end of some months
Labels ==
  {l \in [month : {1, 2, 4, 12}, day : {1, 28, 30, 31}, gap : {1, 2},
          time : {"12:00:00", "24:00:00"}] : ValidDate(l.month, l.day, StrptimeYear)}

PlainLabel(i) == [month |-> 1, day |-> i, gap |-> 2, time |-> "01:00:00"]

\* the series of n labels whose label j is any label, or missing
LabelSeries(n, j) ==
  {[i \in 1..n |-> IF i = j THEN l ELSE PlainLabel(i)] : l \in Labels \cup {MissingLabel}}

InitParse ==
  /\ \E n \in 1..MaxRows : \E j \in 1..n :
       call \in [datetime_series : LabelSeries(n, j), year : {NoYear, 2019, 2020}]
  /\ result = <<>>
  /\ pc = "call"
  /\ error = NoError
  /\ config = Settings(TRUE, FALSE)
  /\ df = <<>>
  /\ args = <<>>
  /\ calc = NewCalc(2020)
  /\ iod_wide = EmptyGrid
  /\ awd_wide = EmptyGrid
  /\ alpha_wide = EmptyGrid
  /\ ddh_wide = EmptyGrid
  /\ di_wide = EmptyGrid
  /\ all_dfs = <<>>
  /\ df_final = <<>>
  /\ files = <<>>

\* the call returns the parsed series, or raises
ParseCall ==
  /\ pc = "call"
  /\ IF ParseDatetimeRaises(call.datetime_series)
     THEN /\ pc' = "raised"
          /\ error' = [type |-> "TypeError", at |-> "call"]
          /\ UNCHANGED result
     ELSE /\ pc' = "returned"
          /\ result' = ParseDatetimeSeries(call.datetime_series, call.year)
          /\ UNCHANGED error
  /\ UNCHANGED <<df, args, calc, iod_wide, awd_wide, alpha_wide, ddh_wide, di_wide,
                 all_dfs, df_final, files, call, config>>

NextParse == ParseCall

SpecParse == InitParse /\ [][NextParse]_vars

----------------------------------------------------------------------------
(* calculate_heat_index_levels on its own, on tables whose operative
   temperatures lie on and around the limits of the categories.  A cell of
   the grid of levels is a string; a cell the pivot left empty is "". *)

\* Series.clip(0, 100): NaN stays NaN
Clip0To100(a) ==
  IF IsNaN(a) THEN NaN
  ELSE IF a[1] < 0 THEN Zero
  ELSE IF Gt(a, Deg(100)) THEN Deg(100)
  ELSE a

\* the regression HI_C1 + HI_C2 T + ... + HI_C9 T^2 RH^2 in millionths, for
\* whole T and RH (the coefficients have six decimals)
HIRegression(T, RH) ==
  -8784694 + 1611394 * T + 2338548 * RH - 146116 * T * RH - 12308 * T * T
    - 16424 * RH * RH + 2211 * T * T * RH + 725 * T * RH * RH - 3 * T * T * RH * RH

\* the HI column with the regression wherever RH >= 40, to compare with
HIValue_HumidOnly(op, rh) ==
  LET RH == Clip0To100(rh)
  IN  IF Lt(RH, Deg(40)) THEN op
      ELSE IF IsNaN(op) \/ IsNaN(RH) \/ op[2] # 1 THEN NaN
      ELSE R(HIRegression(op[1], RH[1]), 1000000)

\* the HI column of a row: np.where((T <= 26.7) | (RH < 40), T, regression)
HIValue(op, rh) ==
  LET RH == Clip0To100(rh)
  IN  IF Le(op, Tenths(267)) \/ Lt(RH, Deg(40)) THEN op
      ELSE IF IsNaN(op) \/ IsNaN(RH) THEN NaN
      ELSE R(HIRegression(op[1], RH[1]), 1000000)

\* the categories with the limits themselves in the lower category, to compare with
CalculateHeatIndexCategory_UpperInclusive(hi_celsius) ==
  IF IsNaN(hi_celsius) THEN "INVALID DATA"
  ELSE IF Le(hi_celsius, Deg(27)) THEN "SAFE CONDITION"
  ELSE IF Le(hi_celsius, Deg(32)) THEN "CAUTION"
  ELSE IF Le(hi_celsius, Deg(41)) THEN "EXTREME CAUTION"
  ELSE IF Le(hi_celsius, Deg(54)) THEN "DANGER"
  ELSE "EXTREME DANGER"

\* calculate_heat_index_category
CalculateHeatIndexCategory(hi_celsius) ==
  IF IsNaN(hi_celsius) THEN "INVALID DATA"
  ELSE IF Lt(hi_celsius, Deg(27)) THEN "SAFE CONDITION"
  ELSE IF Lt(hi_celsius, Deg(32)) THEN "CAUTION"
  ELSE IF Lt(hi_celsius, Deg(41)) THEN "EXTREME CAUTION"
  ELSE IF Lt(hi_celsius, Deg(54)) THEN "DANGER"
  ELSE "EXTREME DANGER"

NoLevel == ""

\* pivot_table(index='DateTime', columns='Zone', values='HIlevel',
\* aggfunc='first'): the first level of every (timestamp, zone) group; a cell
\* without a group is empty
PivotFirstLevel(frame) ==
  LET ts == {frame[i].DateTime : i \in 1..Len(frame)} \ {NaT}
      kept == {p \in ts \X Zones : GroupValues(frame, p[1], {p[2]}) # <<>>}
      idx == {p[1] : p \in kept}
      cols == {p[2] : p \in kept}
  IN  [idx |-> idx, cols |-> cols,
       val |-> [p \in idx \X cols |->
                  IF p \in kept THEN GroupValues(frame, p[1], {p[2]})[1] ELSE NoLevel]]

\* DataFrame.fillna(level) on a grid of levels
FillLevel(g, level) ==
  [g EXCEPT !.val = [p \in DOMAIN g.val |-> IF g.val[p] = NoLevel THEN level ELSE g.val[p]]]

\* calculate_heat_index_levels
CalculateHILevels(d, year) ==
  FillLevel(PivotFirstLevel(
    Frame(d, year, [i \in 1..Len(d) |->
                      [z \in Zones |->
                         CalculateHeatIndexCategory(HIValue(d[i].zd[z].op, d[i].zd[z].rh))]])),
    "SAFE CONDITION")

\* the readings around the limits 27, 32, 41 and 54, dry and humid
LevelReadings ==
  {[op |-> t, rh |-> h, occ |-> Deg(1)] :
     t \in {NaN, Deg(26), Deg(27), Deg(31), Deg(32), Deg(40), Deg(41), Deg(53), Deg(54)},
     h \in {NaN, Deg(30), Deg(40), Deg(120)}}

\* the tables of n rows whose row j holds any of these readings for the first zone
LevelTables(n, j) ==
  {[i \in 1..n |->
      Row(i, Deg(24), IF i = j THEN a ELSE [op |-> Deg(35), rh |-> Deg(80), occ |-> Zero], b)] :
     a \in LevelReadings, b \in FewReadingsZ2}

InitLevels ==
  /\ \E n \in 1..MaxRows : \E j \in 1..n :
       call \in [data_frame : LevelTables(n, j), year : {NoYear, 2020}]
  /\ result = <<>>
  /\ pc = "call"
  /\ error = NoError
  /\ config = Settings(TRUE, FALSE)
  /\ df = <<>>
  /\ args = <<>>
  /\ calc = NewCalc(2020)
  /\ iod_wide = EmptyGrid
  /\ awd_wide = EmptyGrid
  /\ alpha_wide = EmptyGrid
  /\ ddh_wide = EmptyGrid
  /\ di_wide = EmptyGrid
  /\ all_dfs = <<>>
  /\ df_final = <<>>
  /\ files = <<>>

\* the call returns the grid of levels
LevelsCall ==
  /\ pc = "call"
  /\ pc' = "returned"
  /\ result' = CalculateHILevels(call.data_frame, call.year)
  /\ UNCHANGED <<df, args, calc, iod_wide, awd_wide, alpha_wide, ddh_wide, di_wide,
                 all_dfs, df_final, files, error, call, config>>

NextLevels == LevelsCall

SpecLevels == InitLevels /\ [][NextLevels]_vars

----------------------------------------------------------------------------
(* calculate_discomfort_index_category and calculate_discomfort_index_levels
   on their own: the category of DI values on and around the limits, and the
   grid of levels of a table *)

\* the categories with the limits themselves in the lower category, to compare with
CalculateDiscomfortIndexCategory_UpperInclusive(di_value) ==
  IF IsNaN(di_value) THEN "INVALID DATA"
  ELSE IF Le(di_value, Deg(21)) THEN "COMFORTABLE"
  ELSE IF Le(di_value, Deg(24)) THEN "SLIGHTLY UNCOMFORTABLE"
  ELSE IF Le(di_value, Deg(27)) THEN "UNCOMFORTABLE"
  ELSE IF Le(di_value, Deg(29)) THEN "VERY UNCOMFORTABLE"
  ELSE "DANGEROUS"

\* calculate_discomfort_index_category
CalculateDiscomfortIndexCategory(di_value) ==
  IF IsNaN(di_value) THEN "INVALID DATA"
  ELSE IF Lt(di_value, Deg(21)) THEN "COMFORTABLE"
  ELSE IF Lt(di_value, Deg(24)) THEN "SLIGHTLY UNCOMFORTABLE"
  ELSE IF Lt(di_value, Deg(27)) THEN "UNCOMFORTABLE"
  ELSE IF Lt(di_value, Deg(29)) THEN "VERY UNCOMFORTABLE"
  ELSE "DANGEROUS"

\* calculate_discomfort_index_levels
CalculateDILevels(d, year) ==
  FillLevel(PivotFirstLevel(
    Frame(d, year, [i \in 1..Len(d) |->
                      [z \in Zones |->
                         CalculateDiscomfortIndexCategory(DIValue(d[i].out, d[i].zd[z].rh))]])),
    "COMFORTABLE")

\* the DI values from 20.5 to 29.5 in tenths, and null
DIValues == {Tenths(n) : n \in 205..295} \cup {NaN}

\* the tables of n rows whose row j holds any outdoor temperature and any
\* humidity of the first zone
DITables(n, j) ==
  {[i \in 1..n |->
      Row(i, IF i = j THEN o ELSE Deg(24),
          [op |-> Deg(20), rh |-> IF i = j THEN h ELSE Deg(80), occ |-> Zero], b)] :
     o \in {NaN, Deg(8), Deg(24), Deg(40)}, h \in {NaN, Deg(30), Deg(80)},
     b \in FewReadingsZ2}

InitDILevels ==
  /\ \/ call \in [di_value : DIValues]
     \/ \E n \in 1..MaxRows : \E j \in 1..n :
          call \in [data_frame : DITables(n, j), year : {NoYear, 2020}]
  /\ result = <<>>
  /\ pc = "call"
  /\ error = NoError
  /\ config = Settings(TRUE, FALSE)
  /\ df = <<>>
  /\ args = <<>>
  /\ calc = NewCalc(2020)
  /\ iod_wide = EmptyGrid
  /\ awd_wide = EmptyGrid
  /\ alpha_wide = EmptyGrid
  /\ ddh_wide = EmptyGrid
  /\ di_wide = EmptyGrid
  /\ all_dfs = <<>>
  /\ df_final = <<>>
  /\ files = <<>>

\* the category of one DI value
DICategoryCall ==
  /\ pc = "call" /\ "di_value" \in DOMAIN call
  /\ pc' = "returned"
  /\ result' = CalculateDiscomfortIndexCategory(call.di_value)
  /\ UNCHANGED <<df, args, calc, iod_wide, awd_wide, alpha_wide, ddh_wide, di_wide,
                 all_dfs, df_final, files, error, call, config>>

\* the grid of levels of a table
DILevelsCall ==
  /\ pc = "call" /\ "data_frame" \in DOMAIN call
  /\ pc' = "returned"
  /\ result' = CalculateDILevels(call.data_frame, call.year)
  /\ UNCHANGED <<df, args, calc, iod_wide, awd_wide, alpha_wide, ddh_wide, di_wide,
                 all_dfs, df_final, files, error, call, config>>

NextDILevels == DICategoryCall \/ DILevelsCall

SpecDILevels == InitDILevels /\ [][NextDILevels]_vars

----------------------------------------------------------------------------
(* the grids of HI, HIlevel, DI and DIlevel of one table, computed one after
   the other on copies of the table as the exports do, with no date range *)

\* calculate_heat_index: the HI column pivoted with mean, and fillna(0)
CalculateHI(d, year) ==
  LET HI == [i \in 1..Len(d) |-> [z \in Zones |-> HIValue(d[i].zd[z].op, d[i].zd[z].rh)]]
  IN  FillNa(PivotTable(Frame(d, year, HI), "mean"), Zero)

\* the readings of the first zone: temperatures on both sides of 26.7 and
\* humidities on both sides of 40 and above 100
GridReadings ==
  {[op |-> t, rh |-> h, occ |-> Deg(1)] :
     t \in {NaN, Deg(26), Tenths(267), Deg(27), Deg(35)},
     h \in {NaN, Deg(30), Deg(40), Deg(80), Deg(120)}}

\* the tables of n rows whose row j holds any of these readings and any outdoor
\* temperature
GridTables(n, j) ==
  {[i \in 1..n |->
      Row(i, IF i = j THEN o ELSE Deg(24),
          IF i = j THEN a ELSE [op |-> Deg(35), rh |-> Deg(80), occ |-> Zero], b)] :
     o \in {NaN, Deg(24), Deg(40)}, a \in GridReadings, b \in FewReadingsZ2}

InitGrids ==
  /\ \E n \in 1..MaxRows : \E j \in 1..n :
       call \in [data_frame : GridTables(n, j), year : {2020}]
  /\ result = <<>>
  /\ pc = "HI"
  /\ error = NoError
  /\ config = Settings(TRUE, FALSE)
  /\ df = <<>>
  /\ args = <<>>
  /\ calc = NewCalc(2020)
  /\ iod_wide = EmptyGrid
  /\ awd_wide = EmptyGrid
  /\ alpha_wide = EmptyGrid
  /\ ddh_wide = EmptyGrid
  /\ di_wide = EmptyGrid
  /\ all_dfs = <<>>
  /\ df_final = <<>>
  /\ files = <<>>

Grid_HI ==
  /\ pc = "HI"
  /\ pc' = "HIlevel"
  /\ result' = [hi_wide |-> CalculateHI(call.data_frame, call.year)]
  /\ UNCHANGED <<df, args, calc, iod_wide, awd_wide, alpha_wide, ddh_wide, di_wide,
                 all_dfs, df_final, files, error, call, config>>

Grid_HIlevel ==
  /\ pc = "HIlevel"
  /\ pc' = "DI"
  /\ result' = [hi_wide |-> result.hi_wide,
                hilevel_wide |-> CalculateHILevels(call.data_frame, call.year)]
  /\ UNCHANGED <<df, args, calc, iod_wide, awd_wide, alpha_wide, ddh_wide, di_wide,
                 all_dfs, df_final, files, error, call, config>>

Grid_DI ==
  /\ pc = "DI"
  /\ pc' = "DIlevel"
  /\ result' = [hi_wide |-> result.hi_wide, hilevel_wide |-> result.hilevel_wide,
                di_wide |-> CalculateDI(call.data_frame, [year |-> call.year])]
  /\ UNCHANGED <<df, args, calc, iod_wide, awd_wide, alpha_wide, ddh_wide, di_wide,
                 all_dfs, df_final, files, error, call, config>>

Grid_DIlevel ==
  /\ pc = "DIlevel"
  /\ pc' = "done"
  /\ result' = [hi_wide |-> result.hi_wide, hilevel_wide |-> result.hilevel_wide,
                di_wide |-> result.di_wide,
                dilevel_wide |-> CalculateDILevels(call.data_frame, call.year)]
  /\ UNCHANGED <<df, args, calc, iod_wide, awd_wide, alpha_wide, ddh_wide, di_wide,
                 all_dfs, df_final, files, error, call, config>>

NextGrids == Grid_HI \/ Grid_HIlevel \/ Grid_DI \/ Grid_DIlevel

SpecGrids == InitGrids /\ [][NextGrids]_vars

----------------------------------------------------------------------------
(* the properties *)

NoRange == args.start_date = NoDate /\ args.end_date = NoDate

\* the positions of a run after its IOD, AWD, ALPHA, DDH and DI steps
AfterIOD == pc \in {"AWD", "ALPHA", "DDH", "DI", "write", "wAWD", "wALPHA", "wDDH", "wDI", "done"}
AfterAWD == pc \in {"ALPHA", "DDH", "DI", "write", "wALPHA", "wDDH", "wDI", "done"}
AfterALPHA == pc \in {"DDH", "DI", "write", "wDDH", "wDI", "done"}
AfterDDH == pc \in {"DI", "write", "wDI", "done"}
AfterDI == pc \in {"write", "done"}

\* the timestamp the run gives row i of the table
RowTime(i) == DateTime(df[i], calc.year)

\* C1 as stated: the IOD of a zone at a timestamp is max(operative temperature
\* - comfort temperature, 0), a number >= 0, when the zone is occupied, and null
\* (never 0) when it is not
C1_IODNumberWhenOccupied ==
  AfterIOD =>
    \A i \in 1..Len(df), z \in Zones :
      LET zr == df[i].zd[z]
          v == Cell(iod_wide, RowTime(i), z)
          over == IF Gt(zr.op, calc.COMFORT_TEMPERATURE)
                  THEN Sub(zr.op, calc.COMFORT_TEMPERATURE) ELSE Zero
      IN  (NoRange \/ RowTime(i) \in iod_wide.idx) =>
            IF Gt(zr.occ, Zero)
            THEN NotNa(v) /\ Ge(v, Zero) /\ v = over
            ELSE IsNaN(v)

\* C1, amended: the IOD of a zone at a timestamp is max(operative temperature -
\* comfort temperature, 0), a number >= 0, when the zone is occupied and its
\* operative temperature is not null; it is null (never 0) when the zone is
\* unoccupied or its operative temperature is null
C1_IODOccupiedAndMeasured ==
  AfterIOD =>
    \A i \in 1..Len(df), z \in Zones :
      LET zr == df[i].zd[z]
          v == Cell(iod_wide, RowTime(i), z)
          over == IF Gt(zr.op, calc.COMFORT_TEMPERATURE)
                  THEN Sub(zr.op, calc.COMFORT_TEMPERATURE) ELSE Zero
      IN  (NoRange \/ RowTime(i) \in iod_wide.idx) =>
            IF Gt(zr.occ, Zero) /\ NotNa(zr.op)
            THEN NotNa(v) /\ Ge(v, Zero) /\ v = over
            ELSE IsNaN(v)

\* an IOD grid with an occupied zone above the comfort temperature, an occupied
\* zone without an operative temperature, and an unoccupied zone above the
\* comfort temperature
C1_Witness ==
  /\ pc = "done"
  /\ \E i \in 1..Len(df), z \in Zones :
       Gt(df[i].zd[z].occ, Zero) /\ Gt(Cell(iod_wide, RowTime(i), z), Zero)
  /\ \E i \in 1..Len(df), z \in Zones :
       Gt(df[i].zd[z].occ, Zero) /\ IsNaN(df[i].zd[z].op)
  /\ \E i \in 1..Len(df), z \in Zones :
       ~Gt(df[i].zd[z].occ, Zero) /\ Gt(df[i].zd[z].op, calc.COMFORT_TEMPERATURE)

\* C2: calculate_alpha has a cell for every timestamp and zone of the IOD grid;
\* the cell is null when the IOD is null or the AWD of that timestamp is 0 or
\* null, and is exactly IOD / AWD otherwise; the ALPHA block never raises
C2_AlphaNullOrQuotient ==
  /\ error.at # "ALPHA"
  /\ AfterALPHA =>
       /\ alpha_wide.idx = iod_wide.idx
       /\ alpha_wide.cols = iod_wide.cols
       /\ \A t \in iod_wide.idx, z \in iod_wide.cols :
            LET i == iod_wide.val[<<t, z>>]
                a == Cell(awd_wide, t, "Environment")
                v == alpha_wide.val[<<t, z>>]
            IN  IF IsNaN(i) \/ IsNaN(a) \/ a[1] = 0
                THEN IsNaN(v)
                ELSE NotNa(v) /\ v[1] * a[1] * i[2] = i[1] * v[2] * a[2]

\* an ALPHA grid with a null IOD, with an IOD over an AWD of 0, and with a
\* positive quotient
C2_Witness ==
  /\ AfterALPHA
  /\ \E p \in DOMAIN alpha_wide.val : IsNaN(iod_wide.val[p])
  /\ \E p \in DOMAIN alpha_wide.val :
       NotNa(iod_wide.val[p]) /\ Cell(awd_wide, p[1], "Environment") = Zero
  /\ \E p \in DOMAIN alpha_wide.val : Gt(alpha_wide.val[p], Zero)

\* the alphatot row of the rows collected so far
AlphatotRows == SelectSeq(all_dfs, LAMBDA r : r.Indicator = "alphatot")

\* the mean of all the non-null cells of a grid taken together
GlobalMean(g) ==
  LET cells == {p \in DOMAIN g.val : NotNa(g.val[p])}
      RECURSIVE Total(_)
      Total(S) == IF S = {} THEN Zero
                  ELSE LET p == CHOOSE q \in S : TRUE
                       IN  Add(g.val[p], Total(S \ {p}))
  IN  IF cells = {} THEN NaN ELSE Div(Total(cells), Deg(Cardinality(cells)))

\* C3: alphatot is the mean of all the non-null alpha cells, over all zones and
\* all timestamps taken together, in a single row
C3_AlphatotIsGlobalMean ==
  (args.cmd = "powerbi" /\ AfterALPHA) =>
    /\ Len(AlphatotRows) = 1
    /\ AlphatotRows[1].Value = GlobalMean(alpha_wide)

\* the day of timestamp t lies in the date range of the call, in the year of the
\* call or, when the call names none, in the year of the data
InWindow(t) ==
  LET y == IF args.year # NoYear THEN args.year ELSE t[1]
  IN  /\ args.start_date = NoDate \/ t[1] > y \/ (t[1] = y /\ t[2] >= args.start_date)
      /\ args.end_date = NoDate \/ t[1] < y \/ (t[1] = y /\ t[2] <= args.end_date)

\* the sum of the non-null cells of column z of grid g at the timestamps in T
RECURSIVE SumOver(_, _, _)
SumOver(g, z, T) ==
  IF T = {} THEN Zero
  ELSE LET t == CHOOSE u \in T : TRUE
           v == g.val[<<t, z>>]
       IN  Add(IF IsNaN(v) THEN Zero ELSE v, SumOver(g, z, T \ {t}))

\* the DDH rows of a sequence of exported rows
DDHRows(rows) == SelectSeq(rows, LAMBDA r : r.Indicator = "DDH")

\* C4: export_powerbi applies the date range before it aggregates: the DDH of a
\* zone is the sum of the hourly contributions inside the range only, the ALPHA
\* grid is the quotient of the IOD and AWD cells inside the range only, and
\* alphatot is the aggregate of that grid
C4_FilterBeforeAggregation ==
  /\ (args.cmd = "powerbi" /\ AfterDDH) =>
       LET hourly == CalculateDDH(df, calc)
           inside == {t \in hourly.idx : InWindow(t)}
       IN  \A z \in hourly.cols :
             \E k \in 1..Len(DDHRows(all_dfs)) :
               /\ DDHRows(all_dfs)[k].Zone = z
               /\ DDHRows(all_dfs)[k].Value = SumOver(hourly, z, inside)
  /\ (args.cmd = "powerbi" /\ AfterALPHA) =>
       LET iod == CalculateIOD(df, calc)
           awd == CalculateAWD(df, calc)
       IN  /\ alpha_wide.idx = {t \in iod.idx : InWindow(t)}
           /\ alpha_wide.cols = iod.cols
           /\ \A p \in DOMAIN alpha_wide.val :
                alpha_wide.val[p] = AlphaValue(iod.val[p], Cell(awd, p[1], "Environment"))
           /\ AlphatotRows[1].Value = AlphatotValue(alpha_wide)

\* a finished Power BI export whose date range keeps a timestamp with a positive
\* DDH contribution and a positive alpha, and leaves such a timestamp out
C4_Witness ==
  /\ args.cmd = "powerbi" /\ pc = "done"
  /\ LET hourly == CalculateDDH(df, calc)
         alpha == CalculateAlpha(CalculateIOD(df, calc), CalculateAWD(df, calc))
     IN  /\ \E p \in DOMAIN hourly.val : InWindow(p[1]) /\ Gt(hourly.val[p], Zero)
         /\ \E p \in DOMAIN hourly.val : ~InWindow(p[1]) /\ Gt(hourly.val[p], Zero)
         /\ \E p \in DOMAIN alpha.val : InWindow(p[1]) /\ Gt(alpha.val[p], Zero)
         /\ \E p \in DOMAIN alpha.val : ~InWindow(p[1]) /\ Gt(alpha.val[p], Zero)

\* the tables that agree with the run's table at every timestamp inside the date
\* range and may differ from it outside
Variants ==
  {d2 \in Tables(Len(df), 0) :
     \A i \in 1..Len(df) : InWindow(RowTime(i)) => d2[i] = df[i]}

\* what export_powerbi exports for table d under the arguments of the run
ExportedDDH(d) ==
  AggregateDDH(FilterByDateRange(CalculateDDH(d, calc),
                                 args.start_date, args.end_date, args.year))
ExportedAlphatot(d) ==
  AlphatotValue(CalculateAlpha(
    FilterByDateRange(CalculateIOD(d, calc), args.start_date, args.end_date, args.year),
    FilterByDateRange(CalculateAWD(d, calc), args.start_date, args.end_date, args.year)))

\* C5: with a date range, the exported DDH of every zone and alphatot depend on
\* the rows inside the range only: a run over any table that agrees with this
\* one inside the range exports the same DDH rows and the same alphatot
C5_OnlyWindowDataCounts ==
  (args.cmd = "powerbi" /\ pc = "done") =>
    \A d2 \in Variants :
      /\ ExportedDDH(d2) = DDHRows(df_final)
      /\ ExportedAlphatot(d2) = AlphatotRows[1].Value

\* the same for alphatot alone
C5_AlphatotOnlyWindowData ==
  (args.cmd = "powerbi" /\ pc = "done") =>
    \A d2 \in Variants : ExportedAlphatot(d2) = AlphatotRows[1].Value

\* the seconds of timestamp t since the start of its year's day 0
Seconds(t) == t[2] * 86400 + t[3]

\* C6: with start and end dates and an explicit year, _filter_by_date_range
\* keeps exactly the rows from 00:00:00 of the start day to 23:59:59 of the end
\* day of that year, both inclusive, with the columns and the values unchanged;
\* one day of the hourly grid is that day's 24 rows
C6_FilterKeepsInclusiveRange ==
  (pc = "returned" /\ call.year # NoYear
     /\ call.start_date # NoDate /\ call.end_date # NoDate) =>
    LET g == call.df_wide
        lo == call.start_date * 86400
        hi == call.end_date * 86400 + 86399
    IN  /\ result.idx = {t \in g.idx : t[1] = call.year /\ lo <= Seconds(t) /\ Seconds(t) <= hi}
        /\ result.cols = g.cols
        /\ \A p \in DOMAIN result.val : result.val[p] = g.val[p]
        /\ DOMAIN result.val = result.idx \X result.cols
        /\ (g = HourlyGrid /\ call.start_date = call.end_date) =>
             /\ Cardinality(result.idx) = 24
             /\ \A t \in result.idx : t[2] = call.start_date

\* one day of the hourly grid was asked for, and 24 rows came back
C6_Witness ==
  /\ pc = "returned" /\ call.year # NoYear
  /\ call.df_wide = HourlyGrid
  /\ call.start_date = 2 /\ call.end_date = 2
  /\ Cardinality(result.idx) = 24

\* a row at 23:59:59 of the end day and a row at 00:00:00 of the start day are kept
C6_BoundsKept ==
  /\ pc = "returned" /\ call.year # NoYear
  /\ call.start_date # NoDate /\ call.end_date # NoDate
  /\ <<call.year, call.end_date, LastSecond>> \in result.idx
  /\ <<call.year, call.start_date, 0>> \in result.idx
  /\ result.idx # call.df_wide.idx

\* C7: AWD = max(outdoor temperature - base temperature, 0) at every timestamp of
\* the table, whether or not any zone is occupied there, in the single column
\* "Environment", with one row per distinct timestamp
C7_AWDEveryTimestamp ==
  AfterAWD =>
    /\ awd_wide.cols = {"Environment"}
    /\ awd_wide.idx = {RowTime(i) : i \in {j \in 1..Len(df) : InWindow(RowTime(j))}}
    /\ DOMAIN awd_wide.val = awd_wide.idx \X {"Environment"}
    /\ \A i \in 1..Len(df) :
         InWindow(RowTime(i)) =>
           LET v == awd_wide.val[<<RowTime(i), "Environment">>]
               warm == IF Gt(df[i].out, calc.BASE_OUTSIDE_TEMPERATURE)
                       THEN Sub(df[i].out, calc.BASE_OUTSIDE_TEMPERATURE) ELSE Zero
           IN  IF IsNaN(df[i].out) THEN IsNaN(v) ELSE v = warm
    /\ args.cmd = "powerbi" =>
         \A t \in awd_wide.idx :
           Cardinality({k \in 1..Len(all_dfs) :
                          all_dfs[k].Indicator = "AWD" /\ all_dfs[k].DateTime = t}) = 1

\* an AWD grid with a warm timestamp at which no zone is occupied, and a
\* timestamp below the base temperature
C7_Witness ==
  /\ AfterAWD
  /\ \E i \in 1..Len(df) :
       /\ \A z \in Zones : ~Gt(df[i].zd[z].occ, Zero)
       /\ Gt(Cell(awd_wide, RowTime(i), "Environment"), Zero)
  /\ \E i \in 1..Len(df) :
       /\ Lt(df[i].out, calc.BASE_OUTSIDE_TEMPERATURE)
       /\ Cell(awd_wide, RowTime(i), "Environment") = Zero

\* C8: DI is environmental: at a timestamp it is the same for every zone,
\* whatever the zones' own humidity, and AWD has a single value per timestamp
C8_DISameForAllZones ==
  /\ AfterDI =>
       \A t \in di_wide.idx, z1 \in di_wide.cols, z2 \in di_wide.cols :
         di_wide.val[<<t, z1>>] = di_wide.val[<<t, z2>>]
  /\ AfterAWD => Cardinality(awd_wide.cols) = 1

\* the same for AWD alone
C8_AWDSingleValue ==
  AfterAWD => Cardinality(awd_wide.cols) = 1

\* the rows of the table are in the order of their timestamps
Ascending == \A i \in 1..(Len(df) - 1) : TsLt(RowTime(i), RowTime(i + 1))

\* the sum of the outdoor samples of rows lo..hi, and their number
RECURSIVE SampleSum(_, _)
SampleSum(lo, hi) ==
  IF lo > hi THEN Zero
  ELSE IF lo = hi THEN (IF IsNaN(df[lo].out) THEN Zero ELSE df[lo].out)
  ELSE Add(SampleSum(lo, (lo + hi) \div 2), SampleSum((lo + hi) \div 2 + 1, hi))
SampleCount(lo, hi) == Cardinality({j \in lo..hi : NotNa(df[j].out)})

\* the running mean at row i: the mean of the samples among the last 168 rows
RunningMean(i) ==
  LET lo == IF i > 168 THEN i - 167 ELSE 1
  IN  Div(SampleSum(lo, i), Deg(SampleCount(lo, i)))

\* Top_up = 18.0 if running_mean < 10, else min(0.33 * running_mean + 18.8 + 4, 32.7)
AdaptiveLimit(rm) ==
  LET lin == Add(Mul(R(33, 100), rm), R(228, 10))
  IN  IF rm[1] < 10 * rm[2] THEN Deg(18)
      ELSE IF Gt(lin, R(327, 10)) THEN R(327, 10) ELSE lin

C10_DDHNeverTimeSeries ==
  /\ \A k \in 1..Len(df_final) :
       df_final[k].Indicator = "DDH" => df_final[k].DateTime = NoDateTime
  /\ "DDH" \in DOMAIN files => files["DDH"].idx = {}

\* C10, amended: the Power BI export writes DDH as one row per zone, without a
\* timestamp, holding the sum of the zone's contributions inside the date range;
\* the wide export writes the DDH grid of one row per timestamp
C10_DDHScalarInPowerBI ==
  /\ (args.cmd = "powerbi" /\ pc = "done") =>
       /\ \A k \in 1..Len(DDHRows(df_final)) : DDHRows(df_final)[k].DateTime = NoDateTime
       /\ \A z \in Zones :
            \E k \in 1..Len(DDHRows(df_final)) :
              /\ DDHRows(df_final)[k].Zone = z
              /\ DDHRows(df_final)[k].Value = SumOver(ddh_wide, z, ddh_wide.idx)
              /\ \A j \in 1..Len(DDHRows(df_final)) :
                   DDHRows(df_final)[j].Zone = z => j = k
  /\ (args.cmd = "wide" /\ pc = "done") =>
       /\ files["DDH"].idx = {RowTime(i) : i \in 1..Len(df)}
       /\ files["DDH"].cols = Zones

\* a finished Power BI export in which the DDH of a zone adds up the positive
\* contributions of two timestamps
C10_Witness ==
  /\ args.cmd = "powerbi" /\ pc = "done"
  /\ \E z \in Zones :
       /\ Cardinality({t \in ddh_wide.idx : Gt(ddh_wide.val[<<t, z>>], Zero)}) >= 2
       /\ \E k \in 1..Len(df_final) :
            /\ df_final[k].Indicator = "DDH" /\ df_final[k].Zone = z
            /\ Gt(df_final[k].Value, Zero)

\* the accumulated DDH of zone z over table d: the sum of its hourly column
AccumulatedDDH(d, z) ==
  LET g == CalculateDDH(d, calc)
  IN  IF z \in g.cols THEN SumOver(g, z, g.idx) ELSE Zero

\* the table without its last row
Earlier == SubSeq(df, 1, Len(df) - 1)

\* C11: the accumulated DDH of a zone is >= 0; a further, later timestep never
\* decreases it, and an occupied timestep whose operative temperature exceeds
\* Top_up increases it by exactly that exceedance
C11_DDHNonNegativeMonotone ==
  (AfterDDH /\ NoRange /\ Ascending) =>
    \A z \in Zones :
      LET now == SumOver(ddh_wide, z, ddh_wide.idx)
          before == AccumulatedDDH(Earlier, z)
          last == df[Len(df)]
          samples == SampleCount(IF Len(df) > 168 THEN Len(df) - 167 ELSE 1, Len(df))
          top == AdaptiveLimit(RunningMean(Len(df)))
      IN  /\ Ge(now, Zero)
          /\ Ge(now, before)
          /\ (samples > 0 /\ Gt(last.zd[z].occ, Zero) /\ Gt(last.zd[z].op, top)) =>
               /\ Gt(now, before)
               /\ Sub(now, before) = Sub(last.zd[z].op, top)

\* a table whose last row adds an exceedance to a DDH that was positive already,
\* for one zone, and adds nothing for the other
C11_Witness ==
  /\ AfterDDH /\ NoRange /\ Len(df) >= 2
  /\ \E z \in Zones :
       /\ Gt(AccumulatedDDH(Earlier, z), Zero)
       /\ Gt(SumOver(ddh_wide, z, ddh_wide.idx), AccumulatedDDH(Earlier, z))
  /\ \E z \in Zones :
       SumOver(ddh_wide, z, ddh_wide.idx) = AccumulatedDDH(Earlier, z)

\* C18: export_powerbi(comfort_temp=c) computes IOD with the threshold c: an
\* occupied hour with an operative temperature holds max(operative - c, 0).
C18_PassedComfortTemperatureUsed ==
  (AfterIOD /\ args.cmd = "powerbi" /\ NoRange) =>
    \A i \in 1..Len(df) : \A z \in Zones :
      (Gt(df[i].zd[z].occ, Zero) /\ NotNa(df[i].zd[z].op))
        => /\ z \in iod_wide.cols /\ RowTime(i) \in iod_wide.idx
           /\ Cell(iod_wide, RowTime(i), z)
                = Maximum0(Sub(df[i].zd[z].op, args.comfort_temp))

----------------------------------------------------------------------------
(* the properties of the loader *)

Loaded == pc = "loaded"

\* the number the CSV holds on row i for variable v of a zone, NaN when the
\* variable has no column or the cell holds no number
Sensor(z, v, i) ==
  LET cols == result.zone_columns[z]
  IN  IF v \in DOMAIN cols THEN ToNumeric(call.csv.cell[<<cols[v], i>>]) ELSE NaN

Half(a, b) == Div(Add(a, b), Deg(2))

\* C12 as stated: on every row the operative temperature is the operative
\* reading if the row has one, else (air + mean radiant) / 2 if the row has
\* both, else the air temperature; and a zone with no operative column but
\* with air and mean radiant columns holds (air + mean radiant) / 2 on every row.
C12_WaterfallOnEveryRow ==
  Loaded =>
    \A k \in 1..Len(result.combined_df) :
      LET r == result.combined_df[k]
          cols == result.zone_columns[r.Zone]
          op  == Sensor(r.Zone, "operative_temperature", r.row)
          air == Sensor(r.Zone, "air_temperature", r.row)
          mrt == Sensor(r.Zone, "mean_radiant_temperature", r.row)
      IN  /\ r.Operative_Temperature =
               (IF NotNa(op) THEN op
                ELSE IF NotNa(air) /\ NotNa(mrt) THEN Half(air, mrt)
                ELSE air)
          /\ ({"air_temperature", "mean_radiant_temperature"} \subseteq DOMAIN cols
                /\ "operative_temperature" \notin DOMAIN cols)
               => r.Operative_Temperature = Half(air, mrt)

\* C12, amended: the source of the operative temperature is chosen once per
\* zone.  A zone with an operative column holds that column's number on every
\* row, null where the cell holds no number.  A zone without one holds
\* (air + mean radiant) / 2 on every row, null where either is null, when the
\* setting calculate_operative_if_missing is on and the zone's mean radiant
\* column holds a number on some row; in every other case it holds the air
\* temperature.
C12_OperativeChosenPerZone ==
  Loaded =>
    \A k \in 1..Len(result.combined_df) :
      LET r == result.combined_df[k]
          cols == result.zone_columns[r.Zone]
          op  == Sensor(r.Zone, "operative_temperature", r.row)
          air == Sensor(r.Zone, "air_temperature", r.row)
          mrt == Sensor(r.Zone, "mean_radiant_temperature", r.row)
          radiant == \E i \in 1..call.csv.rows :
                       NotNa(Sensor(r.Zone, "mean_radiant_temperature", i))
      IN  r.Operative_Temperature =
            (IF "operative_temperature" \in DOMAIN cols THEN op
             ELSE IF config.calculations.calculate_operative_if_missing /\ radiant
             THEN Half(air, mrt)
             ELSE air)

\* a zone without an operative column was given the mean of its air and its
\* mean radiant temperature on one row and null on another
C12_Witness ==
  /\ Loaded
  /\ \E k, m \in 1..Len(result.combined_df) :
       LET r == result.combined_df[k]
           q == result.combined_df[m]
       IN  /\ r.Zone = q.Zone
           /\ "operative_temperature" \notin DOMAIN result.zone_columns[r.Zone]
           /\ NotNa(r.Air_Temperature) /\ NotNa(r.Mean_Radiant_Temperature)
           /\ r.Operative_Temperature = Half(r.Air_Temperature, r.Mean_Radiant_Temperature)
           /\ NotNa(q.Air_Temperature) /\ IsNaN(q.Operative_Temperature)

\* the zone map has been computed
ZonesFound == pc \in {"environment", "prepare", "loaded", "raised"}

Requested == {call.zones[k] : k \in 1..Len(call.zones)}
Roles == DOMAIN config.zone_variables

\* the columns variable v of zone z may be read from: the one of the template,
\* then those of the fallback templates, in the order of the settings
Candidates(z, v) ==
  LET var_config == config.zone_variables[v]
  IN  <<Format(var_config.column_pattern, z)>>
        \o [k \in 1..Len(var_config.fallback) |-> Format(var_config.fallback[k], z)]

\* the places among the candidates whose column the CSV holds
Existing(z, v) == {k \in 1..Len(Candidates(z, v)) : Candidates(z, v)[k] \in call.csv.columns}

Mapped(z, v) == z \in DOMAIN result.zone_columns /\ v \in DOMAIN result.zone_columns[z]

\* C15: a variable of a zone is mapped to the column of its template when the
\* CSV holds it, otherwise to the first fallback column, in the order of the
\* settings, the CSV holds, and it is unmapped only when the CSV holds none.
C15_PrimaryThenFirstFallback ==
  ZonesFound =>
    \A z \in Requested : \A v \in Roles :
      IF Existing(z, v) = {} THEN ~Mapped(z, v)
      ELSE /\ Mapped(z, v)
           /\ \E k \in Existing(z, v) :
                /\ \A j \in Existing(z, v) : k <= j
                /\ result.zone_columns[z][v] = Candidates(z, v)[k]

\* the CSV holds both fallback columns of a zone's operative temperature but
\* not the column of the template, and holds no column for its humidity
C15_Witness ==
  /\ ZonesFound
  /\ \E z \in Requested :
       /\ Mapped(z, "operative_temperature")
       /\ Existing(z, "operative_temperature") = {2, 3}
       /\ Mapped(z, "air_temperature")
       /\ ~Mapped(z, "relative_humidity")

\* C16: the zone map holds exactly the requested zones for which the CSV holds
\* a column of at least one variable; a zone without a required variable but
\* with another one is in the map.
C16_ZonesWithSomeVariable ==
  ZonesFound =>
    /\ DOMAIN result.zone_columns =
         {z \in Requested : \E v \in Roles : Existing(z, v) # {}}
    /\ \A z \in Requested :
         ((\E v \in Roles : config.zone_variables[v].required /\ Existing(z, v) = {})
            /\ (\E v \in Roles : Existing(z, v) # {}))
           => z \in DOMAIN result.zone_columns

\* one requested zone is absent from the map, another is in it without its
\* required operative and air temperatures
C16_Witness ==
  /\ ZonesFound
  /\ \E z \in Requested : z \notin DOMAIN result.zone_columns
  /\ \E z \in DOMAIN result.zone_columns :
       /\ Existing(z, "operative_temperature") = {}
       /\ Existing(z, "air_temperature") = {}
       /\ config.zone_variables.operative_temperature.required

NoZoneResolved == \A z \in Requested : \A v \in Roles : Existing(z, v) = {}

RequiredEnvironmentMissing ==
  \E v \in DOMAIN config.environmental_variables :
    /\ config.environmental_variables[v].required
    /\ config.environmental_variables[v].column_pattern \notin call.csv.columns

\* C17: the load ends in an error, with no table, when no requested zone has
\* any variable and when a required environmental variable has no column; on a
\* CSV with a Date/Time column where neither is the case it does not raise and
\* returns the table, one row per kept zone and CSV row.
C17_FatalConfigurationErrors ==
  /\ NoZoneResolved => pc \in {"load", "raised"}
  /\ RequiredEnvironmentMissing => pc \in {"load", "environment", "raised"}
  /\ pc = "raised" => "combined_df" \notin DOMAIN result
  /\ (NoZoneResolved \/ RequiredEnvironmentMissing) /\ pc = "raised"
       => error.type = "ValueError"
  /\ (~NoZoneResolved /\ ~RequiredEnvironmentMissing /\ DateTimeColumn \in call.csv.columns)
       => /\ pc # "raised"
          /\ Loaded => Len(result.combined_df)
                         = call.csv.rows * Cardinality(DOMAIN result.zone_columns)

\* the zones were found but the required outdoor temperature has no column
C17_Witness ==
  /\ pc = "raised" /\ error.at = "environment"
  /\ ~NoZoneResolved /\ RequiredEnvironmentMissing

----------------------------------------------------------------------------
(* the properties of _parse_datetime *)

Returned == pc = "returned"

\* C13: with a year supplied, a label at 24:00:00 gives 00:00:00 of the next
\* calendar day of that year's calendar (month ends, 02/28 of a leap year and
\* 12/31 included), and every other label gives its own month, day and time
\* in the supplied year.
C13_MidnightIsNextDay ==
  (Returned /\ call.year # NoYear) =>
    \A i \in 1..Len(call.datetime_series) :
      LET l == call.datetime_series[i]
      IN  result[i] = IF l.time = "24:00:00"
                      THEN NextDay(call.year, l.month, l.day) \o <<0>>
                      ELSE <<call.year, l.month, l.day, SecondOfDay(l.time)>>

\* C14: a series with a malformed label is parsed all the same: the call does
\* not raise, the malformed row gets the null timestamp and every other row
\* the timestamp it gets on its own.
C14_MalformedRowIsLocal ==
  /\ pc # "raised"
  /\ Returned =>
       \A i \in 1..Len(call.datetime_series) :
         LET l == call.datetime_series[i]
         IN  result[i] = IF l = MissingLabel THEN <<0, 0, 0, 0>>
                         ELSE ParseDatetimeSeries(<<l>>, call.year)[1]

----------------------------------------------------------------------------
(* the properties of calculate_heat_index_levels *)

\* the limits of the categories, each the lowest HI of its category
LevelLimits ==
  <<[level |-> "CAUTION", from |-> Deg(27)],
    [level |-> "EXTREME CAUTION", from |-> Deg(32)],
    [level |-> "DANGER", from |-> Deg(41)],
    [level |-> "EXTREME DANGER", from |-> Deg(54)]>>

\* the categories the claim gives an HI: one per limit it has reached and not
\* yet the next, SAFE CONDITION below the first, INVALID DATA for null
LevelsOf(hi) ==
  {LevelLimits[k].level : k \in {k \in 1..Len(LevelLimits) :
      /\ Ge(hi, LevelLimits[k].from)
      /\ k < Len(LevelLimits) => Lt(hi, LevelLimits[k + 1].from)}}
    \cup (IF Lt(hi, LevelLimits[1].from) THEN {"SAFE CONDITION"} ELSE {})
    \cup (IF IsNaN(hi) THEN {"INVALID DATA"} ELSE {})

----------------------------------------------------------------------------
(* the properties of the discomfort index levels *)

\* the limits of the DI categories, each the lowest DI of its category
DILimits ==
  <<[level |-> "SLIGHTLY UNCOMFORTABLE", from |-> Deg(21)],
    [level |-> "UNCOMFORTABLE", from |-> Deg(24)],
    [level |-> "VERY UNCOMFORTABLE", from |-> Deg(27)],
    [level |-> "DANGEROUS", from |-> Deg(29)]>>

\* the category of a DI that is a number: COMFORTABLE below the first limit,
\* else the category of the highest limit it has reached
DIBucket(di) ==
  IF Lt(di, DILimits[1].from) THEN "COMFORTABLE"
  ELSE LET k == CHOOSE k \in 1..Len(DILimits) :
                  /\ Ge(di, DILimits[k].from)
                  /\ k < Len(DILimits) => Lt(di, DILimits[k + 1].from)
       IN  DILimits[k].level

----------------------------------------------------------------------------
(* the properties of the HI and DI grids *)

HIDone == pc \in {"HIlevel", "DI", "DIlevel", "done"}
GridsDone == pc = "done"

\* C22: where a zone has an operative temperature T at a timestamp, its Heat
\* Index is T itself when T <= 26.7 or RH < 40, and differs from T, being the
\* value of the regression at T and RH (RH at most 100), only when T > 26.7
\* and RH >= 40.
C22_HIIdentityOutsideRegressionDomain ==
  HIDone =>
    \A i \in 1..Len(call.data_frame) : \A z \in Zones :
      LET r == call.data_frame[i]
          T == r.zd[z].op
          RH == r.zd[z].rh
          hi == Cell(result.hi_wide, DateTime(r, call.year), z)
      IN  NotNa(T) =>
            /\ (Le(T, Tenths(267)) \/ Lt(RH, Deg(40))) => hi = T
            /\ (Gt(T, Tenths(267)) /\ Ge(RH, Deg(40)))
                 => hi = R(HIRegression(T[1], IF Gt(RH, Deg(100)) THEN 100 ELSE RH[1]), 1000000)
            /\ hi # T => (Gt(T, Tenths(267)) /\ Ge(RH, Deg(40))) \/ IsNaN(RH)

\* one zone is at exactly 26.7 degrees in humid air and keeps its temperature
\* as HI; another zone of the same grid is hotter, humid and gets another value
C22_Witness ==
  /\ HIDone
  /\ \E i \in 1..Len(call.data_frame) : \E z \in Zones :
       LET r == call.data_frame[i]
       IN  /\ r.zd[z].op = Tenths(267) /\ r.zd[z].rh = Deg(80)
           /\ Cell(result.hi_wide, DateTime(r, call.year), z) = Tenths(267)
  /\ \E i \in 1..Len(call.data_frame) : \E z \in Zones :
       LET r == call.data_frame[i]
       IN  /\ Gt(r.zd[z].op, Tenths(267)) /\ Ge(r.zd[z].rh, Deg(40))
           /\ Gt(Cell(result.hi_wide, DateTime(r, call.year), z), r.zd[z].op)

\* C23: every indicator that reads the relative humidity uses it clipped to
\* [0, 100]: where a zone has a temperature and a humidity at a timestamp with
\* an outdoor temperature, its HI and its DI are those of the clipped
\* humidity, and so are their levels.
C23_HumidityClippedEverywhere ==
  GridsDone =>
    \A i \in 1..Len(call.data_frame) : \A z \in Zones :
      LET r == call.data_frame[i]
          t == DateTime(r, call.year)
          RH == Clip0To100(r.zd[z].rh)
      IN  (NotNa(r.zd[z].op) /\ NotNa(r.zd[z].rh) /\ NotNa(r.out)) =>
            /\ Cell(result.hi_wide, t, z) = HIValue(r.zd[z].op, RH)
            /\ result.hilevel_wide.val[<<t, z>>]
                 = CalculateHeatIndexCategory(HIValue(r.zd[z].op, RH))
            /\ Cell(result.di_wide, t, z) = DIValue(r.out, RH)
            /\ result.dilevel_wide.val[<<t, z>>]
                 = CalculateDiscomfortIndexCategory(DIValue(r.out, RH))

----------------------------------------------------------------------------
(* the properties of the ULTRA-LONG rows *)

PowerBIDone == args.cmd = "powerbi" /\ pc = "done"

RowsOf(name) == SelectSeq(df_final, LAMBDA r : r.Indicator = name)

\* C24: in the rows written, a DDH or alphatot row has the empty DateTime and
\* a row of IOD, AWD, alpha or DI has a timestamp; every zone has exactly one
\* DDH row, there is exactly one alphatot row, of Zone "values", and every AWD
\* row has Zone "Environment".
C24_RowShapes ==
  PowerBIDone =>
    /\ \A k \in 1..Len(df_final) :
         LET r == df_final[k]
         IN  /\ r.Indicator \in {"DDH", "alphatot"} => r.DateTime = NoDateTime
             /\ r.Indicator \in {"IOD", "AWD", "alpha", "DI"}
                  => r.DateTime # NoDateTime /\ r.DateTime # NaT
             /\ r.Indicator = "AWD" => r.Zone = "Environment"
             /\ r.Indicator = "alphatot" => r.Zone = "values"
             /\ r.Indicator = "DDH" => r.Zone \in Zones
    /\ "DDH" \in args.indicators =>
         \A z \in Zones : Len(SelectSeq(RowsOf("DDH"), LAMBDA r : r.Zone = z)) = 1
    /\ "ALPHA" \in args.indicators => Len(RowsOf("alphatot")) = 1

\* the rows written hold IOD and AWD rows of two timestamps next to the DDH
\* rows and the alphatot row
C24_Witness ==
  /\ PowerBIDone
  /\ Len(RowsOf("DDH")) = Cardinality(Zones)
  /\ Len(RowsOf("alphatot")) = 1
  /\ Len(RowsOf("AWD")) >= 2
  /\ Len(RowsOf("IOD")) >= 2

\* the zone z is occupied at the timestamp t of the table
OccupiedAt(t, z) == \E i \in 1..Len(df) : RowTime(i) = t /\ Gt(df[i].zd[z].occ, Zero)

\* C25: the written rows contain an IOD row for a (timestamp, zone) pair only
\* if the zone is occupied at that timestamp, so no written IOD row has a null
\* value
C25_NoUnoccupiedIODRow ==
  PowerBIDone =>
    \A k \in 1..Len(df_final) :
      df_final[k].Indicator = "IOD" =>
        /\ NotNa(df_final[k].Value)
        /\ OccupiedAt(df_final[k].DateTime, df_final[k].Zone)

-----------------------------------------------------------------------------
(* the powerbi command *)

\* an option that was not given, and a list that was not built
None == <<>>

\* the indicator names of the requests
RequestNames == {"IOD", "iod", "ALPHA", "DDH", "DIlevel", "HIlevel", "alphatot", "PMV"}

\* str.upper
Upper(s) ==
  CASE s = "iod" -> "IOD"
    [] s = "DIlevel" -> "DILEVEL"
    [] s = "HIlevel" -> "HILEVEL"
    [] s = "alphatot" -> "ALPHATOT"
    [] OTHER -> s

valid_indicators == {"IOD", "AWD", "ALPHA", "HI", "DDH", "DI", "DILEVEL", "HILEVEL"}

\* the parameters of PowerBIExporter.export_powerbi
ExportPowerbiParameters ==
  {"zones", "output_file", "indicators", "comfort_temp", "base_temp", "year",
   "start_date", "end_date"}

\* the keywords of the command's call of export_powerbi
PowerbiCallKeywords ==
  {"zones", "output_file", "indicators", "comfort_temp", "base_temp", "year",
   "start_date", "end_date", "export_format"}

\* the indicators whose rows export_powerbi appends for the list it is given;
\* the file it writes is always a CSV (to_csv)
ExportedIndicators(indicators) ==
  LET list == IF indicators = None
              THEN {"IOD", "AWD", "ALPHA", "HI", "DDH", "DI", "DIlevel", "HIlevel"}
              ELSE {indicators[k] : k \in 1..Len(indicators)}
  IN  (list \cap {"IOD", "AWD", "ALPHA", "HI", "HIlevel", "DDH", "DI", "DIlevel"})
        \cup (IF "ALPHA" \in list THEN {"alphatot"} ELSE {})

\* the longest --indicators list of a request
MaxNames == 2

\* the --indicators options of at most n names
RECURSIVE IndicatorOptions(_)
IndicatorOptions(n) ==
  IF n = 0 THEN {None}
  ELSE IndicatorOptions(n - 1)
         \cup {Append(s, x) : s \in {o \in IndicatorOptions(n - 1) : Len(o) = n - 1},
                              x \in RequestNames}

InitCli ==
  /\ args \in [cmd : {"cli"}, zones : {None, ZoneSeq},
               zone_group : {"", "studyrooms", "attic"},
               indicators : IndicatorOptions(MaxNames), format : {"csv", "xlsx"}]
  /\ config \in [zone_groups : {[studyrooms |-> ZoneSeq]}, default_zones : {None, ZoneSeq}]
  /\ call = [zone_list |-> None, indicators_list |-> None]
  /\ result = <<>>
  /\ pc = "zones"
  /\ error = NoError
  /\ df = <<>>
  /\ calc = NewCalc(2020)
  /\ iod_wide = EmptyGrid
  /\ awd_wide = EmptyGrid
  /\ alpha_wide = EmptyGrid
  /\ ddh_wide = EmptyGrid
  /\ di_wide = EmptyGrid
  /\ all_dfs = <<>>
  /\ df_final = <<>>
  /\ files = <<>>

\* Config.get_zone_group
GetZoneGroup(c, group_name) ==
  IF group_name \in DOMAIN c.zone_groups THEN c.zone_groups[group_name] ELSE None

\* powerbi: the zones to analyze
ZoneList(a, c) ==
  IF a.zones # None THEN a.zones
  ELSE IF a.zone_group # "" THEN GetZoneGroup(c, a.zone_group)
  ELSE c.default_zones

\* powerbi: the parsed --indicators option
IndicatorsList(a) == [k \in 1..Len(a.indicators) |-> Upper(a.indicators[k])]

Cli_Zones ==
  /\ pc = "zones"
  /\ IF ZoneList(args, config) = None
     THEN /\ pc' = "aborted"
          /\ error' = [type |-> "ClickException", at |-> "zones"]
          /\ UNCHANGED call
     ELSE /\ pc' = "indicators"
          /\ call' = [call EXCEPT !.zone_list = ZoneList(args, config)]
          /\ UNCHANGED error
  /\ UNCHANGED <<df, args, calc, iod_wide, awd_wide, alpha_wide, ddh_wide, di_wide,
                 all_dfs, df_final, files, result, config>>

Cli_Indicators ==
  /\ pc = "indicators"
  /\ IF \E k \in 1..Len(args.indicators) : IndicatorsList(args)[k] \notin valid_indicators
     THEN /\ pc' = "aborted"
          /\ error' = [type |-> "ClickException", at |-> "indicators"]
          /\ UNCHANGED call
     ELSE /\ pc' = "export"
          /\ call' = [call EXCEPT !.indicators_list = IndicatorsList(args)]
          /\ UNCHANGED error
  /\ UNCHANGED <<df, args, calc, iod_wide, awd_wide, alpha_wide, ddh_wide, di_wide,
                 all_dfs, df_final, files, result, config>>

\* the call of export_powerbi: a keyword that is no parameter of the method
\* is a TypeError, which the command turns into click.Abort
Cli_Export ==
  /\ pc = "export"
  /\ IF PowerbiCallKeywords \subseteq ExportPowerbiParameters
     THEN /\ pc' = "success"
          /\ result' = [indicators |-> ExportedIndicators(call.indicators_list),
                        format |-> "csv"]
          /\ UNCHANGED error
     ELSE /\ pc' = "aborted"
          /\ error' = [type |-> "TypeError", at |-> "export_powerbi"]
          /\ UNCHANGED result
  /\ UNCHANGED <<df, args, calc, iod_wide, awd_wide, alpha_wide, ddh_wide, di_wide,
                 all_dfs, df_final, files, call, config>>

NextCli == Cli_Zones \/ Cli_Indicators \/ Cli_Export

SpecCli == InitCli /\ [][NextCli]_vars

\* the request names zones the command can determine and only indicator names
\* the command accepts as valid
WellFormedRequest ==
  /\ args.cmd = "cli"
  /\ ZoneList(args, config) # None
  /\ \A k \in 1..Len(args.indicators) : Upper(args.indicators[k]) \in valid_indicators

\* the indicators the command accepted: the names of the request, or all
AcceptedIndicators ==
  IF args.indicators = None
  THEN {"IOD", "AWD", "ALPHA", "alphatot", "HI", "DDH", "DI", "DIlevel", "HIlevel"}
  ELSE {args.indicators[k] : k \in 1..Len(args.indicators)}

\* C26: for a well-formed request the call of export_powerbi is accepted and
\* the command ends in its success state, having exported a row set for every
\* indicator it accepted, in the selected format; it never aborts
C26_WellFormedRequestSucceeds ==
  (WellFormedRequest /\ pc \in {"success", "aborted"}) =>
    /\ pc = "success"
    /\ \A n \in AcceptedIndicators :
         \E e \in result.indicators : Upper(e) = Upper(n)
    /\ result.format = args.format

----------------------------------------------------------------------------
(* the level grids against the value grids *)

\* C27: the level grids are consistent with the value grids of the same run:
\* at every timestamp and zone of a level grid the value grid has a cell, the
\* HIlevel cell is the category of the HI cell and the DIlevel cell is the
\* category of the DI cell, also where the underlying reading is null.
C27_LevelGridsMatchValueGrids ==
  GridsDone =>
    /\ \A p \in DOMAIN result.hilevel_wide.val :
         /\ p \in DOMAIN result.hi_wide.val
         /\ result.hilevel_wide.val[p] = CalculateHeatIndexCategory(result.hi_wide.val[p])
    /\ \A p \in DOMAIN result.dilevel_wide.val :
         /\ p \in DOMAIN result.di_wide.val
         /\ result.dilevel_wide.val[p] = CalculateDiscomfortIndexCategory(result.di_wide.val[p])

----------------------------------------------------------------------------
(* the zone columns of the IOD and ALPHA grids *)

\* the zones with an IOD at some timestamp of the table: occupied there, with
\* an operative temperature
ZonesWithIOD ==
  {z \in Zones : \E i \in 1..Len(df) :
     Gt(df[i].zd[z].occ, Zero) /\ NotNa(df[i].zd[z].op) /\ RowTime(i) # NaT}

\* C28 as stated: every zone of the table has a column in the IOD grid and in
\* the ALPHA grid, also a zone that is unoccupied at every timestamp
C28_EveryZoneHasColumn ==
  AfterALPHA => iod_wide.cols = Zones /\ alpha_wide.cols = Zones

\* C28, amended: the columns of the IOD grid, and of the ALPHA grid, are the
\* zones that are occupied with an operative temperature at one timestamp of
\* the table at least; the rows written hold IOD and alpha rows of these zones
\* only, and the DDH grid has a column for every zone
C28_ColumnsAreZonesWithIOD ==
  /\ AfterALPHA => iod_wide.cols = ZonesWithIOD /\ alpha_wide.cols = ZonesWithIOD
  /\ AfterDDH => ddh_wide.cols = Zones
  /\ PowerBIDone =>
       \A k \in 1..Len(df_final) :
         df_final[k].Indicator \in {"IOD", "alpha"} => df_final[k].Zone \in ZonesWithIOD

\* a finished export of a table in which one zone is never occupied: the zone
\* has no IOD column and no IOD row, the other zone has both
C28_Witness ==
  /\ PowerBIDone
  /\ \E z \in Zones :
       /\ \A i \in 1..Len(df) : df[i].zd[z].occ = Zero /\ NotNa(df[i].zd[z].op)
       /\ z \notin iod_wide.cols /\ z \notin alpha_wide.cols /\ z \in ddh_wide.cols
  /\ \E k \in 1..Len(df_final) : df_final[k].Indicator = "IOD"

----------------------------------------------------------------------------
(* the two timestamp normalizers on the same labels: _parse_datetime of
   ThermalIndicators and _add_year_to_datetime of CSVPivot.  The ISO 8601
   string '%Y-%m-%d %H:%M:%S' the latter returns is written as the timestamp
   <<year, month, day, second>> it spells. *)

\* parse_date: the blanks are collapsed, the year is put in front, and a label
\* of 24:00:00 is midnight of its date in that year plus one day; whatever
\* fails to parse (a missing label, a missing year) is returned as it came
ParseDate(date_str, year) ==
  IF date_str = MissingLabel \/ year = NoYear THEN date_str
  ELSE IF date_str.time = "24:00:00"
  THEN IF ValidDate(date_str.month, date_str.day, year)
       THEN LET dt == NextDay(year, date_str.month, date_str.day)
            IN  <<dt[1], dt[2], dt[3], 0>>
       ELSE date_str
  ELSE IF ValidDate(date_str.month, date_str.day, year)
       THEN <<year, date_str.month, date_str.day, SecondOfDay(date_str.time)>>
       ELSE date_str

\* _add_year_to_datetime: date_series.apply(parse_date)
AddYearToDatetime(date_series, year) ==
  [i \in 1..Len(date_series) |-> ParseDate(date_series[i], year)]

InitNormalizers ==
  /\ \E n \in 1..MaxRows : \E j \in 1..n :
       call \in [datetime_series : LabelSeries(n, j), year : {NoYear, 2019, 2020}]
  /\ result = [parsed |-> <<>>, with_year |-> <<>>]
  /\ pc = "parse_datetime"
  /\ error = NoError
  /\ config = Settings(TRUE, FALSE)
  /\ df = <<>>
  /\ args = <<>>
  /\ calc = NewCalc(2020)
  /\ iod_wide = EmptyGrid
  /\ awd_wide = EmptyGrid
  /\ alpha_wide = EmptyGrid
  /\ ddh_wide = EmptyGrid
  /\ di_wide = EmptyGrid
  /\ all_dfs = <<>>
  /\ df_final = <<>>
  /\ files = <<>>

\* ThermalIndicators._parse_datetime on the series
Normalize_ParseDatetime ==
  /\ pc = "parse_datetime"
  /\ pc' = "add_year"
  /\ IF ParseDatetimeRaises(call.datetime_series)
     THEN /\ error' = [type |-> "TypeError", at |-> "parse_datetime"]
          /\ UNCHANGED result
     ELSE /\ result' = [result EXCEPT
                          !.parsed = ParseDatetimeSeries(call.datetime_series, call.year)]
          /\ UNCHANGED error
  /\ UNCHANGED <<df, args, calc, iod_wide, awd_wide, alpha_wide, ddh_wide, di_wide,
                 all_dfs, df_final, files, call, config>>

\* CSVPivot._add_year_to_datetime on the same series
Normalize_AddYear ==
  /\ pc = "add_year"
  /\ pc' = "done"
  /\ result' = [result EXCEPT
                  !.with_year = AddYearToDatetime(call.datetime_series, call.year)]
  /\ UNCHANGED <<df, args, calc, iod_wide, awd_wide, alpha_wide, ddh_wide, di_wide,
                 all_dfs, df_final, files, error, call, config>>

NextNormalizers == Normalize_ParseDatetime \/ Normalize_AddYear

SpecNormalizers == InitNormalizers /\ [][NextNormalizers]_vars

\* C29: for every series of well-formed labels 'MM/DD HH:MM:SS', with one
\* blank or more between date and time and 24:00:00 among the times, and every
\* year, _parse_datetime and _add_year_to_datetime denote the same timestamps.
C29_NormalizersAgree ==
  (pc = "done" /\ call.year # NoYear /\ error = NoError) =>
    \A i \in 1..Len(call.datetime_series) : result.parsed[i] = result.with_year[i]

----------------------------------------------------------------------------
(* the totality of _filter_by_date_range *)

\* the rows of the grid g from 00:00:00 of the day start_date to 23:59:59 of
\* the day end_date of the year y, a bound that is absent leaving its side open
InRange(g, start_date, end_date, y) ==
  {t \in g.idx :
     /\ start_date # NoDate => TsLe(<<y, start_date, 0>>, t)
     /\ end_date # NoDate => TsLe(t, <<y, end_date, LastSecond>>)}

\* C30: _filter_by_date_range is total: for every grid, the empty one too, and
\* every start, end and explicit or absent year the call returns a grid and
\* never raises; an absent year is the year of the first timestamp of the
\* grid, and when no row lies on or after start the result is the empty grid.
C30_FilterIsTotal ==
  pc # "call" =>
    /\ pc = "returned"
    /\ result.cols = call.df_wide.cols
    /\ IF call.df_wide.idx = {} THEN result.idx = {}
       ELSE result.idx = InRange(call.df_wide, call.start_date, call.end_date,
                                 IF call.year # NoYear THEN call.year
                                 ELSE SortedTs(call.df_wide.idx)[1][1])

====
